---- MODULE Spec2Model ----
(***************************************************************************)
(* A model of the km-tools provider adapters (OpenAI, Anthropic, Gemini):  *)
(* the chat_loop producer task, the ChatLoopHandle used by the consumer    *)
(* and the provider-owned history store.                                   *)
(*                                                                         *)
(* A tool call is represented by its id (a positive number; 0 stands for   *)
(* "no id"), a text by the sequence of the streamed tokens it is made of.  *)
(***************************************************************************)
EXTENDS Integers, Sequences, FiniteSets, TLC

\* ------------------------------------------------------------------------
\* Bounds of the model
\* ------------------------------------------------------------------------
\* vendor frames the model feeds to one chat_loop, over all its rounds
MaxFrames == 4
\* largest tool-call id a vendor supplies (OpenAI, Anthropic)
MaxCallId == 2
\* longest message list handed to the pruner on its own
MaxHistory == 5
\* largest max_turns the pruner is called with on its own
MaxTurns == 2
\* most deltas fed to one assembler on its own
MaxDeltas == 3
\* most calls checked by one loop detector between two clear()
MaxChecks == 7
\* most items one chat_loop_with_tools reads from its handles
MaxEvents == 8
\* most tool calls one Gemini adapter numbers before its last round
MaxGeminiCalls == 3
\* longest history a Gemini chat_loop is started or continued with
MaxGeminiHistory == 7
\* most tool rounds of each of the two concurrent chat_loops
MaxLoopRounds == 1

Vendors == {"openai", "anthropic", "gemini"}
CallIds == 1..MaxCallId
\* tool_calls[].index values of an OpenAI delta
Indices == {0, 1}
Tokens == {"he"}
\* non-zero token counts a vendor reports
UsageVals == {1}
\* numbers of functionCall parts of one Gemini frame
PartCounts == {0, 1}

\* ------------------------------------------------------------------------
\* Uniform data model (provider.rs)
\* ------------------------------------------------------------------------
\* Message { role, content, tool_call_id, tool_calls }
Message(role, content, id, has, calls) ==
    [role |-> role, content |-> content, tool_call_id |-> id,
     has_calls |-> has, tool_calls |-> calls]

UserMsg == Message("User", <<"hi">>, 0, FALSE, <<>>)

\* TokenUsage { input_tokens, output_tokens, cached_tokens }
TokenUsage(i, o, c) == [input_tokens |-> i, output_tokens |-> o, cached_tokens |-> c]

ZeroUsage == TokenUsage(0, 0, 0)

AddUsage(a, b) ==
    TokenUsage(a.input_tokens + b.input_tokens,
               a.output_tokens + b.output_tokens,
               a.cached_tokens + b.cached_tokens)

\* LoopStep / ProviderError items of the event channel
Ev(kind, text, calls, usage, count, finish) ==
    [kind |-> kind, text |-> text, calls |-> calls, usage |-> usage, count |-> count,
     finish |-> finish]

EvContent(t) == Ev("Content", <<t>>, <<>>, ZeroUsage, 0, "")
EvThinking(t) == Ev("Thinking", <<t>>, <<>>, ZeroUsage, 0, "")
EvToolCallsRequested(calls, content) ==
    Ev("ToolCallsRequested", content, calls, ZeroUsage, 0, "")
EvToolResultsReceived(n) == Ev("ToolResultsReceived", <<>>, <<>>, ZeroUsage, n, "")
EvDone(content, finish, usage, calls) == Ev("Done", content, calls, usage, 0, finish)
EvError == Ev("Error", <<>>, <<>>, ZeroUsage, 0, "")

\* ToolResult { tool_call_id, .. }: one result per id of ids, in order
ResultsFor(ids) == [i \in 1..Len(ids) |-> ids[i]]

\* ------------------------------------------------------------------------
\* Tool-turn pruner (openai.rs prune_tool_turns, anthropic.rs / gemini.rs
\* prune_message_tool_turns)
\* ------------------------------------------------------------------------
\* index one past the run of Tool messages starting at i
RECURSIVE ToolRunEnd(_, _)
ToolRunEnd(h, i) ==
    IF i <= Len(h) /\ h[i].role = "Tool" THEN ToolRunEnd(h, i + 1) ELSE i

\* the ranges <<start, end>> (end exclusive) of the tool turns from index i on
RECURSIVE ToolTurnRanges(_, _)
ToolTurnRanges(h, i) ==
    IF i > Len(h) THEN <<>>
    ELSE IF h[i].role = "Assistant" /\ h[i].has_calls
         THEN LET e == ToolRunEnd(h, i + 1)
              IN  <<(<<i, e>>)>> \o ToolTurnRanges(h, e)
         ELSE ToolTurnRanges(h, i + 1)

\* h.drain(start..end - 1): the last message of the range survives
Drain_Short(h, s, e) == SubSeq(h, 1, s - 1) \o SubSeq(h, e - 1, Len(h))

\* h.drain(start..end)
Drain(h, s, e) == SubSeq(h, 1, s - 1) \o SubSeq(h, e, Len(h))

\* drain the first n ranges, last of them first
RECURSIVE DrainRanges(_, _, _)
DrainRanges(h, ranges, n) ==
    IF n = 0 THEN h
    ELSE DrainRanges(Drain(h, ranges[n][1], ranges[n][2]), ranges, n - 1)

prune_tool_turns(h, max_turns) ==
    IF max_turns = 0 THEN h
    ELSE LET ranges == ToolTurnRanges(h, 1)
         IN  IF Len(ranges) > max_turns
             THEN DrainRanges(h, ranges, Len(ranges) - max_turns)
             ELSE h

\* ------------------------------------------------------------------------
\* OpenAI wire shape
\* ------------------------------------------------------------------------
\* ChatMessage: content is Option for Assistant (content_null = None)
ChatMessage(role, content, isnull, id, has, calls) ==
    [role |-> role, content |-> content, content_null |-> isnull,
     tool_call_id |-> id, has_calls |-> has, tool_calls |-> calls]

convert_message(m) ==
    CASE m.role = "System" -> ChatMessage("System", m.content, FALSE, 0, FALSE, <<>>)
      [] m.role = "User" -> ChatMessage("User", m.content, FALSE, 0, FALSE, <<>>)
      [] m.role = "Assistant" ->
            ChatMessage("Assistant", m.content, FALSE, 0, m.has_calls, m.tool_calls)
      [] m.role = "Tool" -> ChatMessage("Tool", m.content, FALSE, m.tool_call_id, FALSE, <<>>)

\* ------------------------------------------------------------------------
\* Tool-call assembler as the OpenAI loop uses it (provider.rs)
\* ------------------------------------------------------------------------
\* calls: id -> "absent" | "ok" | "bad"; "ok" iff the accumulated argument
\* string parses as JSON (the empty string does not)
NewAssembler == [id \in CallIds |-> "absent"]

process_delta(asm, id, frag) == [asm EXCEPT ![id] = frag]

Perms(S) ==
    {s \in [1..Cardinality(S) -> S] : \A i, j \in 1..Cardinality(S) : i # j => s[i] # s[j]}

\* into_tool_calls().unwrap_or_default(): the possible results (HashMap
\* iteration order is arbitrary; one unparsable entry fails the whole call)
into_tool_calls(asm) ==
    IF \E id \in CallIds : asm[id] = "bad" THEN {<<>>}
    ELSE Perms({id \in CallIds : asm[id] = "ok"})

\* ------------------------------------------------------------------------
\* State
\* ------------------------------------------------------------------------
VARIABLES
    vendor,                 \* which adapter runs the loop
    max_tool_turns,         \* cfg.max_tool_turns (0: None or Some(0))
    input,                  \* the history argument of chat_loop
    store,                  \* the provider's history store (self.history)
    state,                  \* ProviderState counters
    call_counter,           \* Gemini: next id to synthesize
    pc,                     \* position of the producer task
    round,                  \* HTTP rounds started
    nframes,                \* frames read so far
    history,                \* current_history (OpenAI) / history (others)
    messages,               \* OpenAI: vendor-shape message list
    content_accumulator,
    finish_reason,          \* "" for None
    tool_call_assembler,    \* OpenAI
    tool_call_index_to_id,  \* OpenAI: index -> id, 0 when unmapped
    completed_tool_calls,   \* OpenAI: [some, calls]
    pending_tool_calls,     \* Anthropic, Gemini
    current_tool_input,     \* Anthropic: id of the open tool_use block, 0 for None
    loop_usage,             \* Anthropic, Gemini: [some, usage]
    accumulated_usage,      \* Anthropic, Gemini
    all_tool_calls,         \* Gemini
    events,                 \* every item accepted by the event channel, in order
    nread,                  \* how many of them next() has returned
    results,                \* the result channel: submissions not yet received
    dropped,                \* the consumer dropped the handle
    answered,               \* the consumer answered the request it received last
    lastSubmit,             \* what the last submit_tool_results returned
    reported,               \* per round, the usage the vendor reported
    reqRound,               \* ToolCallsRequested emitted in the current round
    consRound,              \* submissions consumed in the current round
    exitCause               \* why the producer left its loop

\* State of the components that are also exercised on their own, outside a
\* chat_loop
VARIABLES
    hist,                   \* pruner: the message list it works on
    pruned_from,            \* pruner: that list before the last call
    prune_arg               \* pruner: max_turns of the last call, -1 when the
                            \* list was changed since

prunerVars == <<hist, pruned_from, prune_arg>>

PrunerIdle == hist = <<>> /\ pruned_from = <<>> /\ prune_arg = -1

VARIABLES
    asm_calls,              \* assembler: ToolCallAssembler.calls
    fed,                    \* assembler: the deltas processed so far
    asm_result              \* assembler: what into_tool_calls returned

assemblerVars == <<asm_calls, fed, asm_result>>

\* PartialToolCall { id, name, arguments }; name "" stands for None
PartialToolCall(id, name, arguments) == [id |-> id, name |-> name, arguments |-> arguments]

\* HashMap::new(): no id has an entry
NoEntry == [id |-> 0, name |-> "", arguments |-> <<>>]
ToolCallAssembler_new == [id \in CallIds |-> NoEntry]

NotFinalized == [called |-> FALSE, ok |-> FALSE, tool_calls |-> <<>>]

AssemblerIdle ==
    asm_calls = ToolCallAssembler_new /\ fed = <<>> /\ asm_result = NotFinalized

VARIABLES
    det_config,             \* detector: LoopDetector.config
    recent_calls,           \* detector: LoopDetector.recent_calls
    detection_count,        \* detector: LoopDetector.detection_count
    recorded,               \* detector: every call checked since new() or clear()
    last_check              \* detector: the last operation and what it returned

detectorVars == <<det_config, recent_calls, detection_count, recorded, last_check>>

\* LoopDetectorConfig::default
DefaultConfig ==
    [max_exact_duplicates |-> 3, exact_window_size |-> 10,
     enable_pattern_detection |-> TRUE, min_pattern_length |-> 2,
     max_pattern_length |-> 3, pattern_window_size |-> 20,
     first_detection_action |-> "Warn", second_detection_action |-> "Warn",
     third_detection_action |-> "Terminate"]

\* Option<LoopDetection>: None
NoDetection ==
    [detected |-> FALSE, loop_type |-> "", call |-> <<>>, count |-> 0, pattern |-> <<>>,
     repetitions |-> 0, action |-> "", detection_count |-> 0, warning_message |-> FALSE]

NoCheck == [op |-> "new", count_before |-> 0, result |-> NoDetection]

\* LoopDetector::with_config(DefaultConfig), never used
DetectorIdle ==
    /\ det_config = DefaultConfig
    /\ recent_calls = <<>>
    /\ detection_count = 0
    /\ recorded = <<>>
    /\ last_check = NoCheck

VARIABLES
    chat_config,            \* orchestrator: config (ChatLoopConfig)
    current_messages,       \* orchestrator: current_messages
    handle,                 \* orchestrator: the handle in use and what its chat_loop was given
    full_content,           \* orchestrator: full_content
    orch_tool_calls,        \* orchestrator: all_tool_calls
    rounds,                 \* orchestrator: rounds
    total_usage,            \* orchestrator: total_usage
    nevents,                \* orchestrator: items handle.next() has returned
    requested,              \* orchestrator: tool_calls of every ToolCallsRequested read
    executed,               \* orchestrator: calls given to registry.execute or an executor
    submitted,              \* orchestrator: results given to submit_tool_results
    response,               \* orchestrator: what chat_loop_with_tools returned
    done_event              \* orchestrator: the Done event read and full_content then

orchVars == <<chat_config, current_messages, handle, full_content, orch_tool_calls,
              rounds, total_usage, nevents, requested, executed, submitted, response,
              done_event>>

NoDone == [some |-> FALSE, content |-> <<>>, usage |-> ZeroUsage, accumulated |-> <<>>]

\* Option<ToolRegistry>: None
NoRegistry == [some |-> FALSE, tools |-> {}, picked_tools |-> {}]

\* ChatLoopConfig::new
ChatLoopConfig_new ==
    [tool_executors |-> {}, registry |-> NoRegistry, max_rounds |-> 10]

NoHandle == [gen |-> 0, state |-> "none", messages |-> <<>>, tools |-> <<>>]

NotCalled ==
    [kind |-> "none", error |-> <<>>, content |-> <<>>, usage |-> ZeroUsage,
     all_tool_calls |-> <<>>, rounds |-> 0]

\* chat_loop_with_tools is not called
OrchIdle ==
    /\ chat_config = ChatLoopConfig_new
    /\ current_messages = <<>>
    /\ handle = NoHandle
    /\ full_content = <<>>
    /\ orch_tool_calls = <<>>
    /\ rounds = 0
    /\ total_usage = ZeroUsage
    /\ nevents = 0
    /\ requested = <<>>
    /\ executed = <<>>
    /\ submitted = <<>>
    /\ response = NotCalled
    /\ done_event = NoDone

VARIABLES
    tool_registry,          \* registry: a ToolRegistry (tools by name, picked_tools)
    reg_last                \* registry: the last operation, its argument and result

registryVars == <<tool_registry, reg_last>>

\* ToolRegistry::new
ToolRegistry_new == [some |-> TRUE, tools |-> {}, picked_tools |-> {}]

NoOperation ==
    [op |-> "new", call |-> <<>>, result |-> <<>>, tools |-> <<>>,
     before |-> ToolRegistry_new]

RegistryIdle == tool_registry = ToolRegistry_new /\ reg_last = NoOperation

VARIABLES
    gm_pc,                  \* gemini: where the chat_loop task is
    gm_max_tool_turns,      \* gemini: config.max_tool_turns (0: None)
    gm_history,             \* gemini: the task's history
    tool_call_meta,         \* gemini: GeminiProvider.tool_call_meta
    gm_call_counter,        \* gemini: GeminiProvider.call_counter
    gm_body,                \* gemini: the contents of the last request built
    gm_emitted              \* gemini: id, signature and name of every call emitted

geminiVars == <<gm_pc, gm_max_tool_turns, gm_history, tool_call_meta, gm_call_counter,
                gm_body, gm_emitted>>

\* the histories the first chat_loop of an adapter is given: the second
\* holds a call and a result that another adapter made
GeminiInputs ==
    { <<UserMsg>>,
      <<UserMsg,
        Message("Assistant", <<>>, 0, TRUE, <<[id |-> 0, name |-> "f", arguments |-> "args"]>>),
        Message("Tool", <<>>, 0, FALSE, <<>>),
        UserMsg>> }

\* GeminiProvider::new, no chat_loop called
GeminiIdle ==
    /\ gm_pc = "idle"
    /\ gm_max_tool_turns = 0
    /\ gm_history = <<>>
    /\ tool_call_meta = <<>>
    /\ gm_call_counter = 1
    /\ gm_body = <<>>
    /\ gm_emitted = <<>>

VARIABLES
    provider_state,         \* concurrent: OpenAIProvider.state
    provider_history,       \* concurrent: OpenAIProvider.history
    state_writers,          \* concurrent: the tasks holding a write guard of state
    task_pc,                \* concurrent: where each spawned task is
    current_history,        \* concurrent: current_history of each task
    task_loaded,            \* concurrent: the counters each task read
    task_usage,             \* concurrent: the usage chunk each task is accounting
    task_rounds,            \* concurrent: submissions each task received
    event_rx,               \* concurrent: what arrived on each handle's event channel
    tool_result_rx,         \* concurrent: submissions queued to each task
    consumed,               \* concurrent: submissions each task received
    handle_dropped,         \* concurrent: the handle of the task is dropped
    chunk_usage,            \* concurrent: sum of the usage chunks each task read
    store_writes            \* concurrent: the tasks that wrote the history, in order

concurrentVars == <<provider_state, provider_history, state_writers, task_pc,
                    current_history, task_loaded, task_usage, task_rounds, event_rx,
                    tool_result_rx, consumed, handle_dropped, chunk_usage, store_writes>>

\* the two tasks spawned by two calls of chat_loop on one adapter
Producers == {1, 2}

\* ProviderState::default
ProviderState_default ==
    [input_tokens |-> 0, output_tokens |-> 0, cached_tokens |-> 0, request_count |-> 0]

NoChunk == [usage |-> ZeroUsage, tool_calls |-> FALSE]

\* OpenAIProvider::new, no chat_loop called
ConcurrentIdle ==
    /\ provider_state = ProviderState_default
    /\ provider_history = <<>>
    /\ state_writers = {}
    /\ task_pc = [p \in Producers |-> "idle"]
    /\ current_history = [p \in Producers |-> <<>>]
    /\ task_loaded = [p \in Producers |-> ProviderState_default]
    /\ task_usage = [p \in Producers |-> NoChunk]
    /\ task_rounds = [p \in Producers |-> 0]
    /\ event_rx = [p \in Producers |-> <<>>]
    /\ tool_result_rx = [p \in Producers |-> <<>>]
    /\ consumed = [p \in Producers |-> <<>>]
    /\ handle_dropped = [p \in Producers |-> FALSE]
    /\ chunk_usage = [p \in Producers |-> ProviderState_default]
    /\ store_writes = <<>>

VARIABLES
    parse_pc,               \* gemini ids: where each task is in parse_candidate_parts
    parse_parts,            \* gemini ids: the functionCall parts each task has left
    parse_id                \* gemini ids: the id each task took last

parserVars == <<parse_pc, parse_parts, parse_id>>

\* no task is reading a frame
ParserIdle ==
    /\ parse_pc = [p \in Producers |-> "idle"]
    /\ parse_parts = [p \in Producers |-> <<>>]
    /\ parse_id = [p \in Producers |-> 0]

componentVars ==
    <<prunerVars, assemblerVars, detectorVars, orchVars, registryVars, geminiVars,
      concurrentVars, parserVars>>

\* what a chat_loop never changes: its arguments and the other components
cfgVars == <<vendor, max_tool_turns, input, componentVars>>
roundVars == <<content_accumulator, finish_reason, tool_call_assembler,
               tool_call_index_to_id, completed_tool_calls, pending_tool_calls,
               current_tool_input, loop_usage>>
taskVars == <<pc, round, nframes, history, messages, accumulated_usage,
              all_tool_calls, reqRound, consRound, exitCause>>
consumerVars == <<nread, results, dropped, answered, lastSubmit>>
vars == <<cfgVars, roundVars, taskVars, consumerVars, store, state,
          call_counter, events, reported>>
\* the state of one chat_loop and its provider
loopVars == <<vendor, max_tool_turns, input, roundVars, taskVars, consumerVars,
              store, state, call_counter, events, reported>>

None == [some |-> FALSE, calls |-> <<>>]
Some(calls) == [some |-> TRUE, calls |-> calls]
NoUsage == [some |-> FALSE, usage |-> ZeroUsage]
SomeUsage(u) == [some |-> TRUE, usage |-> u]

\* histories a caller passes to chat_loop: a user turn, optionally after two
\* complete earlier tool turns
Inputs ==
    { <<UserMsg>>,
      <<UserMsg, Message("Assistant", <<>>, 0, TRUE, <<1>>),
        Message("Tool", <<>>, 1, FALSE, <<>>),
        Message("Assistant", <<>>, 0, TRUE, <<2>>),
        Message("Tool", <<>>, 2, FALSE, <<>>), UserMsg>> }

ProviderState(i, o, c, n) ==
    [input_tokens |-> i, output_tokens |-> o, cached_tokens |-> c, request_count |-> n]

\* chat_loop up to tokio::spawn: channels created, history cloned
LoopInit ==
    /\ vendor \in Vendors
    /\ max_tool_turns \in {0, 1}
    /\ input \in Inputs
    /\ store = <<>>
    /\ state = ProviderState(0, 0, 0, 0)
    /\ call_counter = 1
    /\ pc = "top"
    /\ round = 0
    /\ nframes = 0
    /\ history = input
    /\ messages = IF vendor = "openai"
                  THEN [i \in 1..Len(input) |-> convert_message(input[i])]
                  ELSE <<>>
    /\ content_accumulator = <<>>
    /\ finish_reason = ""
    /\ tool_call_assembler = NewAssembler
    /\ tool_call_index_to_id = [i \in Indices |-> 0]
    /\ completed_tool_calls = None
    /\ pending_tool_calls = <<>>
    /\ current_tool_input = 0
    /\ loop_usage = NoUsage
    /\ accumulated_usage = ZeroUsage
    /\ all_tool_calls = <<>>
    /\ events = <<>>
    /\ nread = 0
    /\ results = <<>>
    /\ dropped = FALSE
    /\ answered = FALSE
    /\ lastSubmit = "none"
    /\ reported = <<>>
    /\ reqRound = 0
    /\ consRound = 0
    /\ exitCause = "none"

Init ==
    /\ LoopInit /\ PrunerIdle /\ AssemblerIdle /\ DetectorIdle /\ OrchIdle
    /\ RegistryIdle /\ GeminiIdle /\ ConcurrentIdle /\ ParserIdle

\* a provider on which no chat_loop runs
LoopIdle == LoopInit /\ vendor = "openai" /\ max_tool_turns = 0 /\ input = <<UserMsg>>

\* ------------------------------------------------------------------------
\* Channels (tokio unbounded mpsc)
\* ------------------------------------------------------------------------
\* let _ = event_tx.send(item): the item is lost once the receiver is gone
Send(q, item) == IF dropped THEN q ELSE Append(q, item)

\* the producer task has ended: its receiver and sender are dropped
Exited == pc = "exited"

\* ChatLoopHandle::is_active: !tool_result_tx.is_closed()
is_active == ~Exited

\* LLMProvider::get_history
get_history == store

\* ------------------------------------------------------------------------
\* Producer: top of the loop, the HTTP request
\* ------------------------------------------------------------------------
\* history as pruned at the top of the loop (Anthropic, Gemini only)
PrunedAtTop(h) ==
    IF vendor = "openai" THEN h ELSE prune_tool_turns(h, max_tool_turns)

ResetRound ==
    /\ content_accumulator' = <<>>
    /\ finish_reason' = ""
    /\ tool_call_assembler' = NewAssembler
    /\ tool_call_index_to_id' = [i \in Indices |-> 0]
    /\ completed_tool_calls' = None
    /\ pending_tool_calls' = <<>>
    /\ current_tool_input' = 0
    /\ loop_usage' = NoUsage

\* the request is sent and answered with a success status
HttpOk ==
    /\ pc = "top"
    /\ history' = PrunedAtTop(history)
    /\ pc' = "stream"
    /\ round' = round + 1
    /\ reported' = Append(reported, ZeroUsage)
    /\ reqRound' = 0
    /\ consRound' = 0
    /\ ResetRound
    /\ UNCHANGED <<cfgVars, consumerVars, store, state, call_counter, events, nframes,
                   messages, accumulated_usage, all_tool_calls, exitCause>>

\* transport failure or non-success status: one error item, then break
HttpError ==
    /\ pc = "top"
    /\ history' = PrunedAtTop(history)
    /\ events' = Send(events, EvError)
    /\ pc' = "write"
    /\ round' = round + 1
    /\ reported' = Append(reported, ZeroUsage)
    /\ reqRound' = 0
    /\ consRound' = 0
    /\ exitCause' = "error"
    /\ UNCHANGED <<cfgVars, roundVars, consumerVars, store, state, call_counter,
                   nframes, messages, accumulated_usage, all_tool_calls>>

\* after the loop: *hist = current_history, then the task ends
WriteHistory ==
    /\ pc = "write"
    /\ store' = history
    /\ pc' = "exited"
    /\ UNCHANGED <<cfgVars, roundVars, consumerVars, state, call_counter, events,
                   reported, round, nframes, history, messages, accumulated_usage,
                   all_tool_calls, reqRound, consRound, exitCause>>

\* the frame loop reporting an error and reading on
ErrorReturn_Continue ==
    /\ events' = Send(events, EvError)
    /\ nframes' = nframes + 1
    /\ UNCHANGED <<cfgVars, roundVars, consumerVars, store, state, call_counter,
                   reported, round, history, messages, accumulated_usage,
                   all_tool_calls, reqRound, consRound, pc, exitCause>>

\* `return` inside the frame loop: one error item, the task ends at once
ErrorReturn ==
    /\ events' = Send(events, EvError)
    /\ pc' = "exited"
    /\ exitCause' = "error"
    /\ nframes' = nframes + 1
    /\ UNCHANGED <<cfgVars, roundVars, consumerVars, store, state, call_counter,
                   reported, round, history, messages, accumulated_usage,
                   all_tool_calls, reqRound, consRound>>

\* Tool messages appended for a submission
ToolMessages(submission) ==
    [i \in 1..Len(submission) |-> Message("Tool", <<>>, submission[i], FALSE, <<>>)]

\* ------------------------------------------------------------------------
\* Producer: OpenAI round (openai.rs)
\* ------------------------------------------------------------------------
InOpenAIStream == vendor = "openai" /\ pc = "stream" /\ nframes < MaxFrames

\* a usage-only chunk (choices empty): emits the round's completion event
OA_Usage ==
    /\ InOpenAIStream
    /\ reported[round] = ZeroUsage
    /\ \E p \in UsageVals, tool_calls \in into_tool_calls(tool_call_assembler) :
          LET token_usage == TokenUsage(p, 1, 0) IN
          /\ state' = ProviderState(state.input_tokens + token_usage.input_tokens,
                                    state.output_tokens + token_usage.output_tokens,
                                    state.cached_tokens, state.request_count + 1)
          /\ reported' = [reported EXCEPT ![round] = token_usage]
          /\ tool_call_assembler' = NewAssembler
          /\ IF tool_calls # <<>>
             THEN /\ completed_tool_calls' = Some(tool_calls)
                  /\ events' = Send(events,
                                    EvToolCallsRequested(tool_calls, content_accumulator))
                  /\ reqRound' = reqRound + 1
             ELSE /\ completed_tool_calls' = completed_tool_calls
                  /\ events' = Send(events,
                                    EvDone(content_accumulator, "Stop", token_usage, <<>>))
                  /\ reqRound' = reqRound
    /\ nframes' = nframes + 1
    /\ UNCHANGED <<cfgVars, consumerVars, store, call_counter, pc, round, history,
                   messages, accumulated_usage, all_tool_calls, consRound, exitCause,
                   content_accumulator, finish_reason, tool_call_index_to_id,
                   pending_tool_calls, current_tool_input, loop_usage>>

\* a chunk whose choice carries delta.content
OA_Content ==
    /\ InOpenAIStream
    /\ \E t \in Tokens :
          /\ content_accumulator' = Append(content_accumulator, t)
          /\ events' = Send(events, EvContent(t))
    /\ nframes' = nframes + 1
    /\ UNCHANGED <<cfgVars, consumerVars, store, state, call_counter, reported, pc,
                   round, history, messages, accumulated_usage, all_tool_calls,
                   reqRound, consRound, exitCause, finish_reason, tool_call_assembler,
                   tool_call_index_to_id, completed_tool_calls, pending_tool_calls,
                   current_tool_input, loop_usage>>

\* a chunk whose choice carries one tool_calls delta: index, optional id
\* (0: absent) and an argument fragment after which the accumulated argument
\* string is ("ok") or is not ("bad") parsable
OA_ToolDelta ==
    /\ InOpenAIStream
    /\ \E index \in Indices, id \in CallIds \cup {0}, frag \in {"ok", "bad"} :
          LET map == IF id # 0 THEN [tool_call_index_to_id EXCEPT ![index] = id]
                     ELSE tool_call_index_to_id
          IN  /\ tool_call_index_to_id' = map
              /\ tool_call_assembler' =
                    IF map[index] # 0
                    THEN process_delta(tool_call_assembler, map[index], frag)
                    ELSE tool_call_assembler
    /\ nframes' = nframes + 1
    /\ UNCHANGED <<cfgVars, consumerVars, store, state, call_counter, events, reported,
                   pc, round, history, messages, accumulated_usage, all_tool_calls,
                   reqRound, consRound, exitCause, content_accumulator, finish_reason,
                   completed_tool_calls, pending_tool_calls, current_tool_input,
                   loop_usage>>

\* a chunk whose choice carries finish_reason
OA_Finish ==
    /\ InOpenAIStream
    /\ finish_reason' \in {"stop", "tool_calls"}
    /\ nframes' = nframes + 1
    /\ UNCHANGED <<cfgVars, consumerVars, store, state, call_counter, events, reported,
                   pc, round, history, messages, accumulated_usage, all_tool_calls,
                   reqRound, consRound, exitCause, content_accumulator,
                   tool_call_assembler, tool_call_index_to_id, completed_tool_calls,
                   pending_tool_calls, current_tool_input, loop_usage>>

\* a frame that is not a ChatCompletionChunk
OA_ParseError == InOpenAIStream /\ ErrorReturn

\* the SSE stream yields Err
OA_StreamError == InOpenAIStream /\ ErrorReturn

\* "[DONE]" or the end of the stream, then the check of finish_reason
OA_StreamEnd ==
    /\ vendor = "openai"
    /\ pc = "stream"
    /\ IF finish_reason = "tool_calls"
       THEN pc' = "await" /\ exitCause' = exitCause
       ELSE pc' = "write" /\ exitCause' = "end"
    /\ UNCHANGED <<cfgVars, roundVars, consumerVars, store, state, call_counter, events,
                   reported, round, nframes, history, messages, accumulated_usage,
                   all_tool_calls, reqRound, consRound>>

\* tool_result_rx.recv() returns Some(submission)
OA_RecvResults ==
    /\ vendor = "openai"
    /\ pc = "await"
    /\ results # <<>>
    /\ LET submission == Head(results)
           tool_calls == completed_tool_calls.calls
       IN  /\ messages' =
                 prune_tool_turns(
                     Append(messages,
                            ChatMessage("Assistant", content_accumulator,
                                        content_accumulator = <<>>, 0, TRUE, tool_calls))
                     \o [i \in 1..Len(submission) |->
                            ChatMessage("Tool", <<>>, FALSE, submission[i], FALSE, <<>>)],
                     max_tool_turns)
           /\ history' =
                 Append(history, Message("Assistant", content_accumulator, 0, TRUE,
                                         tool_calls))
                 \o ToolMessages(submission)
           /\ events' = Send(events, EvToolResultsReceived(Len(submission)))
    /\ results' = Tail(results)
    /\ completed_tool_calls' = None
    /\ consRound' = consRound + 1
    /\ pc' = "top"
    /\ UNCHANGED <<cfgVars, store, state, call_counter, reported, round, nframes,
                   accumulated_usage, all_tool_calls, reqRound, exitCause, nread,
                   dropped, answered, lastSubmit, content_accumulator, finish_reason,
                   tool_call_assembler, tool_call_index_to_id, pending_tool_calls,
                   current_tool_input, loop_usage>>

\* tool_result_rx.recv() returns None: every sender is gone, nothing buffered
RecvClosed ==
    /\ pc = "await"
    /\ results = <<>>
    /\ dropped
    /\ pc' = "write"
    /\ exitCause' = "closed"
    /\ UNCHANGED <<cfgVars, roundVars, consumerVars, store, state, call_counter, events,
                   reported, round, nframes, history, messages, accumulated_usage,
                   all_tool_calls, reqRound, consRound>>

\* ------------------------------------------------------------------------
\* Producer: what Anthropic and Gemini do once a round's stream is over
\* ------------------------------------------------------------------------
AnthropicUsage(i, o, cc, cr) ==
    [input_tokens |-> i, output_tokens |-> o,
     cache_creation_input_tokens |-> cc, cache_read_input_tokens |-> cr]

UsageMetadata(p, cached, cand) ==
    [prompt_token_count |-> p, cached_content_token_count |-> cached,
     candidates_token_count |-> cand]

convert_usage(u) ==
    IF vendor = "anthropic"
    THEN TokenUsage(u.input_tokens, u.output_tokens,
                    u.cache_creation_input_tokens + u.cache_read_input_tokens)
    ELSE TokenUsage(u.prompt_token_count, u.candidates_token_count,
                    u.cached_content_token_count)

update_usage_state(st, u) ==
    LET t == convert_usage(u)
    IN  ProviderState(st.input_tokens + t.input_tokens,
                      st.output_tokens + t.output_tokens,
                      st.cached_tokens + t.cached_tokens, st.request_count + 1)

parse_finish_reason(reason) ==
    CASE reason = "" -> "Stop"
      [] reason \in {"end_turn", "stop_sequence", "STOP"} -> "Stop"
      [] reason \in {"max_tokens", "MAX_TOKENS"} -> "Length"
      [] reason \in {"tool_use", "TOOL_CALLS"} -> "ToolCalls"
      [] OTHER -> "Other"

\* the code after the frame loop, for the events sent so far and the round's
\* pending calls, usage, content and finish reason
PostRound(evs, pending, lu, content, fin) ==
    LET acc == IF lu.some THEN AddUsage(accumulated_usage, convert_usage(lu.usage))
               ELSE accumulated_usage
        all == IF vendor = "gemini" /\ pending # <<>>
               THEN all_tool_calls \o pending
               ELSE all_tool_calls
    IN  /\ state' = IF lu.some THEN update_usage_state(state, lu.usage) ELSE state
        /\ accumulated_usage' = acc
        /\ all_tool_calls' = all
        /\ IF pending # <<>>
           THEN /\ history' = Append(history,
                                     Message("Assistant", content, 0, TRUE, pending))
                /\ events' = Send(evs, EvToolCallsRequested(pending, content))
                /\ reqRound' = reqRound + 1
                /\ pc' = "await"
                /\ exitCause' = exitCause
           ELSE /\ history' = Append(history,
                                     Message("Assistant", content, 0, FALSE, <<>>))
                /\ events' = Send(evs,
                                  EvDone(content, parse_finish_reason(fin), acc, all))
                /\ reqRound' = reqRound
                /\ pc' = "write"
                /\ exitCause' = "done"

\* recv() returns Some(submission): Anthropic and Gemini
RecvResults ==
    /\ vendor # "openai"
    /\ pc = "await"
    /\ results # <<>>
    /\ events' = Send(events, EvToolResultsReceived(Len(Head(results))))
    /\ history' = history \o ToolMessages(Head(results))
    /\ results' = Tail(results)
    /\ consRound' = consRound + 1
    /\ pc' = "top"
    /\ UNCHANGED <<cfgVars, roundVars, store, state, call_counter, reported, round,
                   nframes, messages, accumulated_usage, all_tool_calls, reqRound,
                   exitCause, nread, dropped, answered, lastSubmit>>

\* ------------------------------------------------------------------------
\* Producer: Anthropic round (anthropic.rs)
\* ------------------------------------------------------------------------
InAnthropicStream == vendor = "anthropic" /\ pc = "stream" /\ nframes < MaxFrames

\* what a frame leaves alone whatever its kind
AN_Frame ==
    /\ nframes' = nframes + 1
    /\ UNCHANGED <<cfgVars, consumerVars, store, state, call_counter, pc, round,
                   history, messages, accumulated_usage, all_tool_calls, reqRound,
                   consRound, exitCause, tool_call_assembler, tool_call_index_to_id,
                   completed_tool_calls>>

\* message_start: the first event of a message, carrying its usage
AN_MessageStart ==
    /\ InAnthropicStream
    /\ reported[round] = ZeroUsage
    /\ \E i \in UsageVals :
          LET u == AnthropicUsage(i, 1, 0, 1) IN
          /\ loop_usage' = SomeUsage(u)
          /\ reported' = [reported EXCEPT ![round] = convert_usage(u)]
    /\ AN_Frame
    /\ UNCHANGED <<events, content_accumulator, finish_reason, pending_tool_calls,
                   current_tool_input>>

\* content_block_start of a tool_use block
AN_BlockStart ==
    /\ InAnthropicStream
    /\ current_tool_input' \in CallIds
    /\ AN_Frame
    /\ UNCHANGED <<events, reported, content_accumulator, finish_reason,
                   pending_tool_calls, loop_usage>>

\* content_block_delta, text_delta
AN_TextDelta ==
    /\ InAnthropicStream
    /\ \E t \in Tokens :
          /\ content_accumulator' = Append(content_accumulator, t)
          /\ events' = Send(events, EvContent(t))
    /\ AN_Frame
    /\ UNCHANGED <<reported, finish_reason, pending_tool_calls, current_tool_input,
                   loop_usage>>

\* content_block_delta, thinking_delta
AN_ThinkingDelta ==
    /\ InAnthropicStream
    /\ \E t \in Tokens : events' = Send(events, EvThinking(t))
    /\ AN_Frame
    /\ UNCHANGED <<reported, content_accumulator, finish_reason, pending_tool_calls,
                   current_tool_input, loop_usage>>

\* content_block_stop: closes the open tool_use block, if any
AN_BlockStop ==
    /\ InAnthropicStream
    /\ IF current_tool_input # 0
       THEN pending_tool_calls' = Append(pending_tool_calls, current_tool_input)
       ELSE pending_tool_calls' = pending_tool_calls
    /\ current_tool_input' = 0
    /\ AN_Frame
    /\ UNCHANGED <<events, reported, content_accumulator, finish_reason, loop_usage>>

\* message_delta: stop_reason and, after message_start, the output tokens
AN_MessageDelta ==
    /\ InAnthropicStream
    /\ finish_reason' \in {"end_turn", "tool_use"}
    /\ \E o \in {0} \cup UsageVals :
          /\ o # 0 => loop_usage.some
          /\ loop_usage' =
                IF o # 0
                THEN SomeUsage([loop_usage.usage EXCEPT !.output_tokens = 1 + o])
                ELSE loop_usage
          /\ reported' =
                IF o # 0
                THEN [reported EXCEPT ![round] = convert_usage(loop_usage'.usage)]
                ELSE reported
    /\ AN_Frame
    /\ UNCHANGED <<events, content_accumulator, pending_tool_calls, current_tool_input>>

\* a frame the loop skips: empty data, an unknown event, data that does not
\* deserialize, an input_json_delta (arguments are not modelled)
AN_Ignored ==
    /\ InAnthropicStream
    /\ AN_Frame
    /\ UNCHANGED <<events, reported, content_accumulator, finish_reason,
                   pending_tool_calls, current_tool_input, loop_usage>>

\* the SSE stream yields Err
AN_StreamError == InAnthropicStream /\ ErrorReturn

\* message_stop or the end of the stream
AN_StreamEnd ==
    /\ vendor = "anthropic"
    /\ pc = "stream"
    /\ PostRound(events, pending_tool_calls, loop_usage, content_accumulator,
                 finish_reason)
    /\ UNCHANGED <<cfgVars, roundVars, consumerVars, store, call_counter, reported,
                   round, nframes, messages, consRound>>

\* ------------------------------------------------------------------------
\* Producer: Gemini round (gemini.rs)
\* ------------------------------------------------------------------------
InGeminiStream == vendor = "gemini" /\ pc = "stream" /\ nframes < MaxFrames

\* next_call_id, k times: the ids call_counter .. call_counter + k - 1
NewCallIds(k) == [i \in 1..k |-> call_counter + i - 1]

\* a GenerateContentResponse: optional usageMetadata (u = 0: absent), and
\* either no candidate or a candidate with a finish reason, an optional text
\* part and k functionCall parts
GM_Response ==
    /\ InGeminiStream
    /\ \E u \in {0} \cup UsageVals, cand \in BOOLEAN, fin \in {"", "MAX_TOKENS"},
          text \in {<<>>} \cup {<<t>> : t \in Tokens}, k \in PartCounts :
          LET lu == IF u # 0 THEN SomeUsage(UsageMetadata(u, 1, 1)) ELSE loop_usage
              evs == IF cand /\ text # <<>> THEN Send(events, EvContent(text[1]))
                     ELSE events
              content == IF cand THEN content_accumulator \o text
                         ELSE content_accumulator
              calls == IF cand THEN NewCallIds(k) ELSE <<>>
              pending == pending_tool_calls \o calls
              finish == IF cand THEN fin ELSE finish_reason
          IN  /\ u # 0 => reported[round] = ZeroUsage
              /\ ~cand => (fin = "" /\ text = <<>> /\ k = 0 /\ u # 0)
              /\ loop_usage' = lu
              /\ reported' = IF u # 0
                             THEN [reported EXCEPT ![round] = convert_usage(lu.usage)]
                             ELSE reported
              /\ finish_reason' = finish
              /\ content_accumulator' = content
              /\ pending_tool_calls' = pending
              /\ call_counter' = call_counter + Len(calls)
              /\ IF pending # <<>>
                 THEN PostRound(evs, pending, lu, content, finish)
                 ELSE /\ events' = evs
                      /\ UNCHANGED <<state, accumulated_usage, all_tool_calls, history,
                                     reqRound, pc, exitCause>>
    /\ nframes' = nframes + 1
    /\ UNCHANGED <<cfgVars, consumerVars, store, round, messages, consRound,
                   tool_call_assembler, tool_call_index_to_id, completed_tool_calls,
                   current_tool_input>>

\* a frame with empty data or "[DONE]"
GM_Ignored ==
    /\ InGeminiStream
    /\ nframes' = nframes + 1
    /\ UNCHANGED <<cfgVars, roundVars, consumerVars, store, state, call_counter, events,
                   reported, pc, round, history, messages, accumulated_usage,
                   all_tool_calls, reqRound, consRound, exitCause>>

\* a frame that is not a GenerateContentResponse
GM_ParseError == InGeminiStream /\ ErrorReturn

\* the SSE stream yields Err
GM_StreamError == InGeminiStream /\ ErrorReturn

\* the end of the stream
GM_StreamEnd ==
    /\ vendor = "gemini"
    /\ pc = "stream"
    /\ PostRound(events, pending_tool_calls, loop_usage, content_accumulator,
                 finish_reason)
    /\ UNCHANGED <<cfgVars, roundVars, consumerVars, store, call_counter, reported,
                   round, nframes, messages, consRound>>

\* ------------------------------------------------------------------------
\* Consumer: the ChatLoopHandle (provider.rs)
\* ------------------------------------------------------------------------
\* ChatLoopHandle::next returns the next item
Next_ ==
    /\ ~dropped
    /\ nread < Len(events)
    /\ nread' = nread + 1
    /\ answered' = FALSE
    /\ UNCHANGED <<cfgVars, roundVars, taskVars, store, state, call_counter, events,
                   reported, results, dropped, lastSubmit>>

\* the consumer answers the ToolCallsRequested it has just received with one
\* result per call, in call order (what chat_loop_with_tools submits)
submit_tool_results ==
    /\ ~dropped
    /\ nread > 0
    /\ events[nread].kind = "ToolCallsRequested"
    /\ ~answered
    /\ answered' = TRUE
    /\ IF Exited
       THEN /\ lastSubmit' = "ChatLoopClosed"
            /\ results' = results
       ELSE /\ lastSubmit' = "Ok"
            /\ results' = Append(results, ResultsFor(events[nread].calls))
    /\ UNCHANGED <<cfgVars, roundVars, taskVars, store, state, call_counter, events,
                   reported, nread, dropped>>

\* ChatLoopHandle::cancel, or the handle going out of scope
cancel ==
    /\ ~dropped
    /\ dropped' = TRUE
    /\ UNCHANGED <<cfgVars, roundVars, taskVars, store, state, call_counter, events,
                   reported, nread, results, answered, lastSubmit>>

\* ------------------------------------------------------------------------
\* Specification
\* ------------------------------------------------------------------------
Next ==
    \/ HttpOk
    \/ HttpError
    \/ WriteHistory
    \/ OA_Usage
    \/ OA_Content
    \/ OA_ToolDelta
    \/ OA_Finish
    \/ OA_ParseError
    \/ OA_StreamError
    \/ OA_StreamEnd
    \/ OA_RecvResults
    \/ RecvClosed
    \/ RecvResults
    \/ AN_MessageStart
    \/ AN_BlockStart
    \/ AN_TextDelta
    \/ AN_ThinkingDelta
    \/ AN_BlockStop
    \/ AN_MessageDelta
    \/ AN_Ignored
    \/ AN_StreamError
    \/ AN_StreamEnd
    \/ GM_Response
    \/ GM_Ignored
    \/ GM_ParseError
    \/ GM_StreamError
    \/ GM_StreamEnd
    \/ Next_
    \/ submit_tool_results
    \/ cancel

Spec == Init /\ [][Next]_vars

\* ------------------------------------------------------------------------
\* The pruner on its own: a message list is built message by message and
\* pruned in place
\* ------------------------------------------------------------------------
PruneMessages ==
    { UserMsg,
      Message("System", <<"sys">>, 0, FALSE, <<>>),
      Message("Assistant", <<"he">>, 0, FALSE, <<>>),
      Message("Assistant", <<>>, 0, TRUE, <<1>>),
      Message("Assistant", <<>>, 0, TRUE, <<1, 2>>),
      Message("Tool", <<>>, 1, FALSE, <<>>),
      Message("Tool", <<>>, 2, FALSE, <<>>) }

\* messages.push(m)
PushMessage ==
    /\ Len(hist) < MaxHistory
    /\ \E m \in PruneMessages : hist' = Append(hist, m)
    /\ pruned_from' = <<>>
    /\ prune_arg' = -1
    /\ UNCHANGED <<parserVars, concurrentVars, loopVars, geminiVars, assemblerVars, detectorVars, orchVars, registryVars>>

\* prune_tool_turns(&mut messages, max_turns)
PruneCall ==
    /\ \E max_turns \in 0..MaxTurns :
          /\ hist' = prune_tool_turns(hist, max_turns)
          /\ prune_arg' = max_turns
    /\ pruned_from' = hist
    /\ UNCHANGED <<parserVars, concurrentVars, loopVars, geminiVars, assemblerVars, detectorVars, orchVars, registryVars>>

PrunerInit ==
    ConcurrentIdle /\ ParserIdle /\ GeminiIdle /\ LoopIdle /\ PrunerIdle /\ AssemblerIdle /\ DetectorIdle /\ OrchIdle /\ RegistryIdle

PrunerNext == PushMessage \/ PruneCall

PrunerSpec == PrunerInit /\ [][PrunerNext]_vars

\* ------------------------------------------------------------------------
\* The assembler on its own (provider.rs ToolCallAssembler): deltas are
\* processed one by one, then into_tool_calls consumes the assembler.
\* An argument string is the sequence of its characters.
\* ------------------------------------------------------------------------
\* serde_json::from_str on an argument string: the object "{}" (no key) or
\* "{a}" (the key a), an error otherwise
ParseJson(str) ==
    CASE str = <<"{", "}">> -> [ok |-> TRUE, value |-> {}]
      [] str = <<"{", "a", "}">> -> [ok |-> TRUE, value |-> {"a"}]
      [] OTHER -> [ok |-> FALSE, value |-> {}]

\* what a delta may carry: a name or None (""), an argument fragment or None
Fragments == {<<"{">>, <<"}">>, <<"a">>, <<"{", "}">>}
NoFragment == <<>>

\* (name, arguments_delta) of the deltas fed: no name with any fragment or
\* none; the name f with no fragment, the opening one or the whole object,
\* as in the first delta of a call; the name g with the closing fragment
DeltaShapes ==
    ({""} \X (Fragments \cup {NoFragment}))
        \cup ({"f"} \X {NoFragment, <<"{">>, <<"{", "}">>})
        \cup {<<"g", <<"}">>>>}

\* process_delta forgetting the fragments it was given before
ToolCallAssembler_process_delta_Overwrite(calls_, id, name, arguments_delta) ==
    LET call == IF calls_[id].id = 0 THEN PartialToolCall(id, "", <<>>) ELSE calls_[id]
    IN  [calls_ EXCEPT ![id] =
            PartialToolCall(id, IF name # "" THEN name ELSE call.name,
                            IF arguments_delta # NoFragment THEN arguments_delta
                            ELSE call.arguments)]

\* ToolCallAssembler::process_delta
ToolCallAssembler_process_delta(calls_, id, name, arguments_delta) ==
    LET call == IF calls_[id].id = 0 THEN PartialToolCall(id, "", <<>>) ELSE calls_[id]
    IN  [calls_ EXCEPT ![id] =
            PartialToolCall(id, IF name # "" THEN name ELSE call.name,
                            call.arguments \o arguments_delta)]

\* ToolCallAssembler::into_tool_calls: the results it can return (the
\* iteration order of the HashMap is arbitrary)
ToolCallAssembler_into_tool_calls(calls_) ==
    LET ids == {id \in CallIds : calls_[id].id # 0}
    IN  IF \E id \in ids : ~ParseJson(calls_[id].arguments).ok
        THEN {[called |-> TRUE, ok |-> FALSE, tool_calls |-> <<>>]}
        ELSE {[called |-> TRUE, ok |-> TRUE,
               tool_calls |-> [i \in 1..Cardinality(ids) |->
                                  [id |-> order[i], name |-> calls_[order[i]].name,
                                   arguments |-> ParseJson(calls_[order[i]].arguments).value]]]
              : order \in Perms(ids)}

\* assembler.process_delta(id, name, arguments_delta)
FeedDelta ==
    /\ ~asm_result.called
    /\ Len(fed) < MaxDeltas
    /\ \E id \in CallIds, shape \in DeltaShapes :
          LET name == shape[1]
              frag == shape[2]
          IN  /\ asm_calls' = ToolCallAssembler_process_delta(asm_calls, id, name, frag)
              /\ fed' = Append(fed, [id |-> id, name |-> name, arguments_delta |-> frag])
    /\ UNCHANGED <<parserVars, concurrentVars, loopVars, geminiVars, prunerVars, detectorVars, orchVars, registryVars, asm_result>>

\* assembler.into_tool_calls()
Finalize ==
    /\ ~asm_result.called
    /\ asm_result' \in ToolCallAssembler_into_tool_calls(asm_calls)
    /\ UNCHANGED <<parserVars, concurrentVars, loopVars, geminiVars, prunerVars, detectorVars, orchVars, registryVars, asm_calls, fed>>

AssemblerInit ==
    ConcurrentIdle /\ ParserIdle /\ GeminiIdle /\ LoopIdle /\ PrunerIdle /\ AssemblerIdle /\ DetectorIdle /\ OrchIdle /\ RegistryIdle

AssemblerNext == FeedDelta \/ Finalize

AssemblerSpec == AssemblerInit /\ [][AssemblerNext]_vars

\* ------------------------------------------------------------------------
\* The loop detector (loop_detector.rs). A call is [id, name, arguments];
\* configurations have min_pattern_length >= 1.
\* ------------------------------------------------------------------------
LoopActions == {"Continue", "Warn", "Terminate"}

\* (first, second, third)_detection_action
Policies ==
    { <<"Warn", "Warn", "Terminate">>,
      <<"Terminate", "Continue", "Continue">> }

\* (exact_window_size, pattern_window_size)
Windows == { <<10, 20>>, <<2, 4>>, <<4, 2>> }

\* (min_pattern_length, max_pattern_length)
PatternLengths == { <<2, 3>>, <<1, 2>> }

\* (enable_pattern_detection, pattern lengths): the lengths vary only where
\* pattern detection is enabled and reads them
PatternSettings ==
    { <<TRUE, l>> : l \in PatternLengths } \cup { <<FALSE, <<2, 3>>>> }

\* the configurations a detector is constructed with
Configs ==
    { [DefaultConfig EXCEPT !.max_exact_duplicates = d,
                            !.exact_window_size = w[1],
                            !.pattern_window_size = w[2],
                            !.enable_pattern_detection = s[1],
                            !.min_pattern_length = s[2][1],
                            !.max_pattern_length = s[2][2],
                            !.first_detection_action = a[1],
                            !.second_detection_action = a[2],
                            !.third_detection_action = a[3]]
      : d \in {2, 3}, w \in Windows, s \in PatternSettings, a \in Policies }

\* (name, arguments) of the calls a model asks for
CallKinds == { <<"bash", "ls">>, <<"bash", "pwd">>, <<"edit", "ls">> }

ToolCall(id, name, arguments) == [id |-> id, name |-> name, arguments |-> arguments]

\* serde_json::Value equality
arguments_equal(a, b) == a = b

calls_equal(a, b) == a.name = b.name /\ arguments_equal(a.arguments, b.arguments)

Max(a, b) == IF a >= b THEN a ELSE b

\* iter().rev().take(n), oldest first
LastN(q, n) == SubSeq(q, Max(1, Len(q) - n + 1), Len(q))

\* iter().take(n): the n oldest records
FirstN(q, n) == SubSeq(q, 1, IF n <= Len(q) THEN n ELSE Len(q))

ExactDuplicate(call, count) ==
    [NoDetection EXCEPT !.detected = TRUE, !.loop_type = "ExactDuplicate",
                        !.call = <<call>>, !.count = count]

Pattern(pattern, repetitions) ==
    [NoDetection EXCEPT !.detected = TRUE, !.loop_type = "Pattern",
                        !.pattern = pattern, !.repetitions = repetitions]

\* the duplicates counted among the oldest records instead of the newest
check_exact_duplicate_Oldest(cfg, recent, call) ==
    LET window == FirstN(recent, cfg.exact_window_size)
        count == Cardinality({i \in 1..Len(window) : calls_equal(window[i], call)})
    IN  IF count >= cfg.max_exact_duplicates
        THEN ExactDuplicate(call, count + 1)
        ELSE NoDetection

check_exact_duplicate(cfg, recent, call) ==
    LET window == LastN(recent, cfg.exact_window_size)
        count == Cardinality({i \in 1..Len(window) : calls_equal(window[i], call)})
    IN  IF count >= cfg.max_exact_duplicates
        THEN ExactDuplicate(call, count + 1)
        ELSE NoDetection

\* the continuation compared with the newest record instead of the oldest of
\* the last pattern_len
check_pattern_of_length_Newest(recent, call, pattern_len) ==
    IF Len(recent) < pattern_len * 2 THEN NoDetection
    ELSE LET n == Len(recent)
             last == [i \in 1..pattern_len |-> recent[n - i + 1]]
             prev_pattern == [i \in 1..pattern_len |-> recent[n - pattern_len - i + 1]]
         IN  IF ~\A i \in 1..pattern_len : calls_equal(last[i], prev_pattern[i])
             THEN NoDetection
             ELSE IF ~calls_equal(call, last[1])
             THEN NoDetection
             ELSE Pattern([i \in 1..pattern_len |-> last[pattern_len - i + 1]], 2)

\* `last` is the code's `recent`: the last pattern_len records, newest first
check_pattern_of_length(recent, call, pattern_len) ==
    IF Len(recent) < pattern_len * 2 THEN NoDetection
    ELSE LET n == Len(recent)
             last == [i \in 1..pattern_len |-> recent[n - i + 1]]
             prev_pattern == [i \in 1..pattern_len |-> recent[n - pattern_len - i + 1]]
         IN  IF ~\A i \in 1..pattern_len : calls_equal(last[i], prev_pattern[i])
             THEN NoDetection
             ELSE IF ~calls_equal(call, last[pattern_len])
             THEN NoDetection
             ELSE Pattern([i \in 1..pattern_len |-> last[pattern_len - i + 1]], 2)

\* for pattern_len in from..=max_pattern_length: the first detection
RECURSIVE check_pattern_from(_, _, _, _)
check_pattern_from(cfg, recent, call, from) ==
    IF from > cfg.max_pattern_length THEN NoDetection
    ELSE LET detection == check_pattern_of_length(recent, call, from)
         IN  IF detection.detected THEN detection
             ELSE check_pattern_from(cfg, recent, call, from + 1)

check_pattern(cfg, recent, call) ==
    IF Len(recent) < cfg.min_pattern_length * 2 THEN NoDetection
    ELSE check_pattern_from(cfg, recent, call, cfg.min_pattern_length)

\* the third slot used from the second detection on
apply_action_policy_Early(cfg, count, detection) ==
    LET action == CASE count = 1 -> cfg.first_detection_action
                    [] OTHER -> cfg.third_detection_action
    IN  [detection EXCEPT !.detection_count = count, !.action = action,
                          !.warning_message = (action = "Warn")]

\* count is self.detection_count, already incremented
apply_action_policy(cfg, count, detection) ==
    LET action == CASE count = 1 -> cfg.first_detection_action
                    [] count = 2 -> cfg.second_detection_action
                    [] OTHER -> cfg.third_detection_action
    IN  [detection EXCEPT !.detection_count = count, !.action = action,
                          !.warning_message = (action = "Warn")]

\* a full buffer drops its newest record instead of its oldest
record_call_DropNewest(cfg, recent, call) ==
    LET max_size == Max(cfg.exact_window_size, cfg.pattern_window_size)
        kept == IF Len(recent) >= max_size /\ recent # <<>>
                THEN SubSeq(recent, 1, Len(recent) - 1) ELSE recent
    IN  Append(kept, call)

record_call(cfg, recent, call) ==
    LET max_size == Max(cfg.exact_window_size, cfg.pattern_window_size)
        kept == IF Len(recent) >= max_size /\ recent # <<>> THEN Tail(recent) ELSE recent
    IN  Append(kept, call)

\* what check(call) finds before it records the call
Detect(cfg, recent, call) ==
    LET exact == check_exact_duplicate(cfg, recent, call)
    IN  IF exact.detected THEN exact
        ELSE IF cfg.enable_pattern_detection THEN check_pattern(cfg, recent, call)
        ELSE NoDetection

\* a call that is detected is not recorded
check_SkipDetected ==
    /\ Len(recorded) < MaxChecks
    /\ \E kind \in CallKinds :
          LET call == ToolCall(Len(recorded) + 1, kind[1], kind[2])
              detection == Detect(det_config, recent_calls, call)
              count == IF detection.detected THEN detection_count + 1
                       ELSE detection_count
          IN  /\ detection_count' = count
              /\ recent_calls' = IF detection.detected THEN recent_calls
                                 ELSE record_call(det_config, recent_calls, call)
              /\ recorded' = Append(recorded, call)
              /\ last_check' =
                    [op |-> "check", count_before |-> detection_count,
                     result |-> IF detection.detected
                                THEN apply_action_policy(det_config, count, detection)
                                ELSE NoDetection]
    /\ UNCHANGED <<parserVars, concurrentVars, loopVars, geminiVars, prunerVars, assemblerVars, orchVars, registryVars, det_config>>

\* LoopDetector::check
check ==
    /\ Len(recorded) < MaxChecks
    /\ \E kind \in CallKinds :
          LET call == ToolCall(Len(recorded) + 1, kind[1], kind[2])
              detection == Detect(det_config, recent_calls, call)
              count == IF detection.detected THEN detection_count + 1
                       ELSE detection_count
          IN  /\ detection_count' = count
              /\ recent_calls' = record_call(det_config, recent_calls, call)
              /\ recorded' = Append(recorded, call)
              /\ last_check' =
                    [op |-> "check", count_before |-> detection_count,
                     result |-> IF detection.detected
                                THEN apply_action_policy(det_config, count, detection)
                                ELSE NoDetection]
    /\ UNCHANGED <<parserVars, concurrentVars, loopVars, geminiVars, prunerVars, assemblerVars, orchVars, registryVars, det_config>>

\* the calls are cleared, the detection count is kept
clear_KeepCount ==
    /\ recent_calls' = <<>>
    /\ detection_count' = detection_count
    /\ recorded' = <<>>
    /\ last_check' = [op |-> "clear", count_before |-> detection_count,
                      result |-> NoDetection]
    /\ UNCHANGED <<parserVars, concurrentVars, loopVars, geminiVars, prunerVars, assemblerVars, orchVars, registryVars, det_config>>

\* LoopDetector::clear
clear ==
    /\ recent_calls' = <<>>
    /\ detection_count' = 0
    /\ recorded' = <<>>
    /\ last_check' = [op |-> "clear", count_before |-> detection_count,
                      result |-> NoDetection]
    /\ UNCHANGED <<parserVars, concurrentVars, loopVars, geminiVars, prunerVars, assemblerVars, orchVars, registryVars, det_config>>

\* LoopDetector::reset_detection_count
reset_detection_count ==
    /\ detection_count' = 0
    /\ last_check' = [op |-> "reset", count_before |-> detection_count,
                      result |-> NoDetection]
    /\ UNCHANGED <<parserVars, concurrentVars, loopVars, geminiVars, prunerVars, assemblerVars, orchVars, registryVars, det_config,
                   recent_calls, recorded>>

tracked_count == Len(recent_calls)

\* LoopDetector::with_config
DetectorInit ==
    /\ GeminiIdle /\ ConcurrentIdle /\ ParserIdle
    /\ LoopIdle /\ PrunerIdle /\ AssemblerIdle /\ OrchIdle /\ RegistryIdle
    /\ det_config \in Configs
    /\ recent_calls = <<>>
    /\ detection_count = 0
    /\ recorded = <<>>
    /\ last_check = NoCheck

DetectorNext == check \/ clear \/ reset_detection_count

DetectorSpec == DetectorInit /\ [][DetectorNext]_vars

\* ------------------------------------------------------------------------
\* The tool orchestrator (helpers.rs chat_loop_with_tools) with the registry
\* it executes through (registry.rs). The provider behind a handle is any
\* LLMProvider: it is modelled by the items its handle returns. A handle is
\* "open" while its provider streams and "ack" once results were submitted
\* and ToolResultsReceived is due.
\* ------------------------------------------------------------------------
\* ToolRegistry::new().register(bash)
BashRegistry == [ToolRegistry_new EXCEPT !.tools = {"bash"}]

\* the configurations chat_loop_with_tools is called with
ChatLoopConfigs ==
    { ChatLoopConfig_new,
      [ChatLoopConfig_new EXCEPT !.tool_executors = {"bash"}],
      [ChatLoopConfig_new EXCEPT !.tool_executors = {"bash"}, !.max_rounds = 2],
      [ChatLoopConfig_new EXCEPT !.registry = BashRegistry],
      [ChatLoopConfig_new EXCEPT !.registry = BashRegistry, !.max_rounds = 2] }

\* (name, arguments) of the calls a provider asks for; the arguments of
\* pick_tool are the strings of its "tools" array
OrchCallKinds ==
    { <<"bash", "ls">>, <<"bash", "pwd">>, <<"pick_tool", <<"bash">>>>,
      <<"pick_tools", <<"bash">>>>, <<"grep", "ls">> }

\* the tool_calls of a ToolCallsRequested whose first call gets the id n
ToolCallLists(n) ==
    { <<ToolCall(n, k[1], k[2])>> : k \in OrchCallKinds }
        \cup { <<ToolCall(n, "bash", "ls"), ToolCall(n + 1, "bash", "pwd")>> }

\* the content a ToolCallsRequested carries with these calls
ContentWith(tool_calls) == IF Len(tool_calls) = 2 THEN <<"he">> ELSE <<>>

ToolResult(tool_call_id, content, is_error) ==
    [tool_call_id |-> tool_call_id, content |-> content, is_error |-> is_error]

\* ToolProvider::execute / an executor closure: the tools of the model
\* succeed on every argument but "pwd"
tool_execute(call) == call.arguments # "pwd"

\* the names of seq that satisfy keep, in order
RECURSIVE Filter(_, _)
Filter(seq, keep) ==
    IF seq = <<>> THEN <<>>
    ELSE (IF Head(seq) \in keep THEN <<Head(seq)>> ELSE <<>>) \o Filter(Tail(seq), keep)

Range(seq) == {seq[i] : i \in 1..Len(seq)}

\* every name asked for is picked, registered or not
handle_pick_tools_Unchecked(registry, call) ==
    LET tool_names == call.arguments
    IN  IF tool_names = <<>>
        THEN [registry |-> registry,
              result |-> ToolResult(call.id, <<"No tools specified">>, TRUE)]
        ELSE [registry |-> [registry EXCEPT !.picked_tools = @ \cup Range(tool_names)],
              result |-> ToolResult(call.id, <<"Selected tools", tool_names>>, FALSE)]

\* the picked names replace the names picked before
handle_pick_tools_Replace(registry, call) ==
    LET tool_names == call.arguments
        picked == Filter(tool_names, registry.tools)
        not_found == Filter(tool_names, Range(tool_names) \ registry.tools)
    IN  IF tool_names = <<>>
        THEN [registry |-> registry,
              result |-> ToolResult(call.id, <<"No tools specified">>, TRUE)]
        ELSE [registry |-> [registry EXCEPT !.picked_tools = Range(picked)],
              result |-> ToolResult(call.id,
                                    <<"Selected tools", picked>>
                                       \o (IF not_found # <<>>
                                           THEN <<"Warning: tools not found", not_found>>
                                           ELSE <<>>),
                                    FALSE)]

\* ToolRegistry::handle_pick_tools: [registry, result]; the content of the
\* result names the picked tools and, in a warning, those not found
handle_pick_tools(registry, call) ==
    LET tool_names == call.arguments
        picked == Filter(tool_names, registry.tools)
        not_found == Filter(tool_names, Range(tool_names) \ registry.tools)
    IN  IF tool_names = <<>>
        THEN [registry |-> registry,
              result |-> ToolResult(call.id, <<"No tools specified">>, TRUE)]
        ELSE [registry |-> [registry EXCEPT !.picked_tools = @ \cup Range(picked)],
              result |-> ToolResult(call.id,
                                    <<"Selected tools", picked>>
                                       \o (IF not_found # <<>>
                                           THEN <<"Warning: tools not found", not_found>>
                                           ELSE <<>>),
                                    FALSE)]

\* a provider is picked by every execution, failed or not
ToolRegistry_execute_PickOnError(registry, call) ==
    IF call.name \in {"pick_tool", "pick_tools"} THEN handle_pick_tools(registry, call)
    ELSE IF call.name \in registry.tools
    THEN [registry |-> [registry EXCEPT !.picked_tools = @ \cup {call.name}],
          result |-> ToolResult(call.id,
                                IF tool_execute(call) THEN <<"output">> ELSE <<"error">>,
                                ~tool_execute(call))]
    ELSE [registry |-> registry,
          result |-> ToolResult(call.id, <<"Tool not found", call.name, registry.tools>>,
                                TRUE)]

\* ToolRegistry::execute: [registry, result]
ToolRegistry_execute(registry, call) ==
    IF call.name \in {"pick_tool", "pick_tools"} THEN handle_pick_tools(registry, call)
    ELSE IF call.name \in registry.tools
    THEN IF tool_execute(call)
         THEN [registry |-> [registry EXCEPT !.picked_tools = @ \cup {call.name}],
               result |-> ToolResult(call.id, <<"output">>, FALSE)]
         ELSE [registry |-> registry,
               result |-> ToolResult(call.id,
                                     IF call.name \in registry.picked_tools
                                     THEN <<"error">> ELSE <<"error", "hint">>, TRUE)]
    ELSE [registry |-> registry,
          result |-> ToolResult(call.id, <<"Tool not found", call.name, registry.tools>>,
                                TRUE)]

\* Tool { name, description, parameters }: the description is the full or
\* the brief one or the meta-tool's, the parameters are the provider's
\* schema, the empty-properties object, or the "tools" array with its enum
Tool(name, description, properties, enum, required) ==
    [name |-> name, description |-> description, properties |-> properties,
     enum |-> enum, required |-> required]

FullTool(name) == Tool(name, "full", "schema", {}, {})

BriefTool(name) == Tool(name, "brief", "empty", {}, {})

\* the enum of the "tools" parameter left empty
pick_tools_definition_NoEnum(available_tools) ==
    Tool("pick_tools", "meta", "tools", {}, {"tools"})

\* ToolRegistry::pick_tools_definition
pick_tools_definition(available_tools) ==
    Tool("pick_tools", "meta", "tools", available_tools, {"tools"})

\* every unpicked provider is listed in full as well
get_tools_for_llm_AllFull(registry) ==
    LET unpicked == registry.tools \ registry.picked_tools
    IN  { [i \in 1..Len(p) |-> FullTool(p[i])] \o [i \in 1..Len(u) |-> FullTool(u[i])]
            \o (IF unpicked # {} THEN <<pick_tools_definition(unpicked)>> ELSE <<>>)
          : p \in Perms(registry.picked_tools \cap registry.tools), u \in Perms(unpicked) }

\* ToolRegistry::get_tools_for_llm: the lists it can return (HashSet and
\* HashMap iteration order is arbitrary): picked providers in full, the
\* others in brief, pick_tools while a provider is unpicked
get_tools_for_llm(registry) ==
    LET unpicked == registry.tools \ registry.picked_tools
    IN  { [i \in 1..Len(p) |-> FullTool(p[i])] \o [i \in 1..Len(u) |-> BriefTool(u[i])]
            \o (IF unpicked # {} THEN <<pick_tools_definition(unpicked)>> ELSE <<>>)
          : p \in Perms(registry.picked_tools \cap registry.tools), u \in Perms(unpicked) }

\* the tools argument of chat_loop_with_tools
ToolsArgument == <<FullTool("bash")>>

\* "Execute tools": one call of the loop over tool_calls
execute_one(cfg, call) ==
    IF cfg.registry.some
    THEN LET r == ToolRegistry_execute(cfg.registry, call)
         IN  [registry |-> r.registry, result |-> r.result,
              log |-> <<[call |-> call, by |-> "registry"]>>]
    ELSE IF call.name \in cfg.tool_executors
    THEN [registry |-> cfg.registry,
          result |-> ToolResult(call.id,
                                IF tool_execute(call) THEN <<"output">> ELSE <<"error">>,
                                ~tool_execute(call)),
          log |-> <<[call |-> call, by |-> "executor"]>>]
    ELSE [registry |-> cfg.registry,
          result |-> ToolResult(call.id, <<"not registered", call.name>>, TRUE),
          log |-> <<>>]

\* the results are pushed in front of those collected before
RECURSIVE execute_all_Reversed(_, _)
execute_all_Reversed(cfg, tool_calls) ==
    IF tool_calls = <<>>
    THEN [registry |-> cfg.registry, results |-> <<>>, log |-> <<>>]
    ELSE LET first == execute_one(cfg, Head(tool_calls))
             rest == execute_all_Reversed([cfg EXCEPT !.registry = first.registry],
                                          Tail(tool_calls))
         IN  [registry |-> rest.registry,
              results |-> rest.results \o <<first.result>>,
              log |-> first.log \o rest.log]

\* the loop over tool_calls: [registry, results, log]
RECURSIVE execute_all(_, _)
execute_all(cfg, tool_calls) ==
    IF tool_calls = <<>>
    THEN [registry |-> cfg.registry, results |-> <<>>, log |-> <<>>]
    ELSE LET first == execute_one(cfg, Head(tool_calls))
             rest == execute_all([cfg EXCEPT !.registry = first.registry],
                                 Tail(tool_calls))
         IN  [registry |-> rest.registry,
              results |-> <<first.result>> \o rest.results,
              log |-> first.log \o rest.log]

\* the Tool messages of the results
ResultMessages(tool_results) ==
    [i \in 1..Len(tool_results) |->
        Message("Tool", tool_results[i].content, tool_results[i].tool_call_id,
                FALSE, <<>>)]

\* Err(ProviderError): the message as the pieces it is formatted from
Err(error) == [NotCalled EXCEPT !.kind = "Err", !.error = error]

Running == response.kind = "running"

RECURSIVE CallsOf(_)
CallsOf(lists) == IF lists = <<>> THEN <<>> ELSE Head(lists) \o CallsOf(Tail(lists))

\* handle.next() returns an item
NextItem ==
    /\ Running
    /\ nevents < MaxEvents
    /\ nevents' = nevents + 1

\* LoopStep::Thinking
on_Thinking ==
    /\ NextItem
    /\ handle.state = "open"
    /\ UNCHANGED <<parserVars, concurrentVars, loopVars, geminiVars, prunerVars, assemblerVars, detectorVars, registryVars, done_event, chat_config,
                   current_messages, handle, full_content, orch_tool_calls, rounds,
                   total_usage, requested, executed, submitted, response>>

\* LoopStep::Content
on_Content ==
    /\ NextItem
    /\ handle.state = "open"
    /\ \E text \in Tokens : full_content' = Append(full_content, text)
    /\ UNCHANGED <<parserVars, concurrentVars, loopVars, geminiVars, prunerVars, assemblerVars, detectorVars, registryVars, done_event, chat_config,
                   current_messages, handle, orch_tool_calls, rounds, total_usage,
                   requested, executed, submitted, response>>

\* the restart after pick_tool: the turn is added to current_messages and a
\* new chat_loop is started with them and the registry's tools
restart_chat_loop(registry, content, tool_calls, tool_results) ==
    LET msgs == Append(current_messages, Message("Assistant", content, 0, TRUE, tool_calls))
                    \o ResultMessages(tool_results)
    IN  /\ current_messages' = msgs
        /\ \E new_tools \in get_tools_for_llm(registry) :
              handle' = [gen |-> handle.gen + 1, state |-> "open", messages |-> msgs,
                         tools |-> new_tools]
        /\ UNCHANGED submitted

\* handle.submit_tool_results: the provider of an open handle that has
\* requested calls is waiting for them
submit_results(tool_results) ==
    /\ submitted' = Append(submitted, [gen |-> handle.gen, round |-> rounds + 1,
                                       results |-> tool_results])
    /\ handle' = [handle EXCEPT !.state = "ack"]
    /\ UNCHANGED current_messages

\* the round budget is taken to be one round larger
rounds_exceeded_Late(n, cfg) == n > cfg.max_rounds + 1

\* if rounds > config.max_rounds
rounds_exceeded(n, cfg) == n > cfg.max_rounds

\* LoopStep::ToolCallsRequested
on_ToolCallsRequested ==
    /\ NextItem
    /\ handle.state = "open"
    /\ \E tool_calls \in ToolCallLists(Len(CallsOf(requested)) + 1) :
          LET content == ContentWith(tool_calls)
              done == execute_all(chat_config, tool_calls)
              has_pick_tool == \E i \in 1..Len(tool_calls) : tool_calls[i].name = "pick_tool"
          IN  /\ rounds' = rounds + 1
              /\ requested' = Append(requested, tool_calls)
              /\ IF rounds_exceeded(rounds + 1, chat_config)
                 THEN /\ response' = Err(<<"Maximum rounds (", chat_config.max_rounds,
                                        ") exceeded">>)
                      /\ handle' = [handle EXCEPT !.state = "dropped"]
                      /\ UNCHANGED <<chat_config, current_messages, full_content,
                                     orch_tool_calls, executed, submitted>>
                 ELSE /\ full_content' = full_content \o content
                      /\ orch_tool_calls' = orch_tool_calls \o tool_calls
                      /\ executed' = executed \o done.log
                      /\ chat_config' = [chat_config EXCEPT !.registry = done.registry]
                      /\ IF has_pick_tool /\ chat_config.registry.some
                         THEN restart_chat_loop(done.registry, content, tool_calls,
                                                done.results)
                         ELSE submit_results(done.results)
                      /\ UNCHANGED response
    /\ UNCHANGED <<parserVars, concurrentVars, loopVars, geminiVars, prunerVars, assemblerVars, detectorVars, registryVars, done_event, total_usage>>

\* LoopStep::ToolResultsReceived
on_ToolResultsReceived ==
    /\ NextItem
    /\ handle.state = "ack"
    /\ handle' = [handle EXCEPT !.state = "open"]
    /\ UNCHANGED <<parserVars, concurrentVars, loopVars, geminiVars, prunerVars, assemblerVars, detectorVars, registryVars, done_event, chat_config,
                   current_messages, full_content, orch_tool_calls, rounds, total_usage,
                   requested, executed, submitted, response>>

\* the content a Done carries: none, what was streamed, or another text
DoneContents == {<<>>, full_content, <<"he", "he">>}

\* the content of the event replaces the accumulated text whenever it differs
final_content_IfDiffers(content, accumulated) ==
    IF content # accumulated THEN content ELSE accumulated

\* if !content.is_empty() && content != full_content { full_content = content }
final_content(content, accumulated) ==
    IF content # <<>> /\ content # accumulated THEN content ELSE accumulated

\* LoopStep::Done
on_Done ==
    /\ NextItem
    /\ handle.state = "open"
    /\ \E content \in DoneContents, u \in UsageVals :
          LET usage == TokenUsage(u, u, 0)
              sum == AddUsage(total_usage, usage)
              text == final_content(content, full_content)
          IN  /\ total_usage' = sum
              /\ done_event' = [some |-> TRUE, content |-> content, usage |-> usage,
                                accumulated |-> full_content]
              /\ full_content' = text
              /\ response' = [kind |-> "Ok", error |-> <<>>, content |-> text,
                              usage |-> sum, all_tool_calls |-> orch_tool_calls,
                              rounds |-> rounds]
    /\ handle' = [handle EXCEPT !.state = "dropped"]
    /\ UNCHANGED <<parserVars, concurrentVars, loopVars, geminiVars, prunerVars, assemblerVars, detectorVars, registryVars, chat_config,
                   current_messages, orch_tool_calls, rounds, requested, executed,
                   submitted>>

\* Some(Err(e)): the provider's error is returned
on_Err ==
    /\ NextItem
    /\ handle.state \in {"open", "ack"}
    /\ response' = Err(<<"provider error">>)
    /\ handle' = [handle EXCEPT !.state = "dropped"]
    /\ UNCHANGED <<parserVars, concurrentVars, loopVars, geminiVars, prunerVars, assemblerVars, detectorVars, registryVars, done_event, chat_config,
                   current_messages, full_content, orch_tool_calls, rounds, total_usage,
                   requested, executed, submitted>>

\* None: the stream of the handle ended
on_None ==
    /\ NextItem
    /\ handle.state \in {"open", "ack"}
    /\ response' = Err(<<"Chat loop ended unexpectedly">>)
    /\ handle' = [handle EXCEPT !.state = "dropped"]
    /\ UNCHANGED <<parserVars, concurrentVars, loopVars, geminiVars, prunerVars, assemblerVars, detectorVars, registryVars, done_event, chat_config,
                   current_messages, full_content, orch_tool_calls, rounds, total_usage,
                   requested, executed, submitted>>

\* the provider's task awaits tool results in a round in which it sent no
\* ToolCallsRequested (OpenAI: finish_reason "tool_calls" without a usage
\* chunk): handle.next() does not return
next_blocks ==
    /\ Running
    /\ handle.state = "open"
    /\ nevents < MaxEvents
    /\ handle' = [handle EXCEPT !.state = "blocked"]
    /\ UNCHANGED <<parserVars, concurrentVars, loopVars, geminiVars, prunerVars, assemblerVars, detectorVars, registryVars, done_event, chat_config,
                   current_messages, full_content, orch_tool_calls, rounds, total_usage,
                   nevents, requested, executed, submitted, response>>

\* chat_loop_with_tools up to its loop: the first chat_loop is started
OrchInit ==
    /\ GeminiIdle /\ ConcurrentIdle /\ ParserIdle
    /\ LoopIdle /\ PrunerIdle /\ AssemblerIdle /\ DetectorIdle /\ RegistryIdle
    /\ chat_config \in ChatLoopConfigs
    /\ current_messages = <<UserMsg>>
    /\ \E tools_for_llm \in IF chat_config.registry.some
                              THEN get_tools_for_llm(chat_config.registry)
                              ELSE {ToolsArgument} :
          handle = [gen |-> 1, state |-> "open", messages |-> <<UserMsg>>,
                    tools |-> tools_for_llm]
    /\ full_content = <<>>
    /\ orch_tool_calls = <<>>
    /\ rounds = 0
    /\ total_usage = ZeroUsage
    /\ nevents = 0
    /\ requested = <<>>
    /\ executed = <<>>
    /\ submitted = <<>>
    /\ response = [NotCalled EXCEPT !.kind = "running"]
    /\ done_event = NoDone

OrchNext ==
    \/ on_Thinking
    \/ on_Content
    \/ on_ToolCallsRequested
    \/ on_ToolResultsReceived
    \/ on_Done
    \/ on_Err
    \/ on_None
    \/ next_blocks

OrchSpec == OrchInit /\ [][OrchNext]_vars

\* the task running chat_loop_with_tools is scheduled, and so is the
\* provider's task as long as it can send an item or end the stream
OrchLiveSpec == OrchSpec /\ WF_vars(OrchNext)

\* ------------------------------------------------------------------------
\* The tool registry on its own (registry.rs): providers are registered,
\* calls are executed, the tools for the LLM are asked for.
\* ------------------------------------------------------------------------
\* tools::all_tools(): the names of the built-in providers
all_tools == {"bash", "editor__Edit"}

\* the calls given to execute: of a provider, of an unknown tool, of the
\* meta-tool under both of its names
RegistryCalls ==
    { ToolCall(id, n, a) : id \in {1, 2}, n \in all_tools \cup {"grep"}, a \in {"ls", "pwd"} }
        \cup { ToolCall(1, n, a) :
                 n \in {"pick_tool", "pick_tools"},
                 a \in { <<>>, <<"bash">>, <<"grep">>, <<"bash", "grep">>,
                         <<"editor__Edit", "bash">> } }

Operation(op, call, result, tools) ==
    [op |-> op, call |-> call, result |-> result, tools |-> tools,
     before |-> tool_registry]

\* ToolRegistry::register
register ==
    /\ \E name \in all_tools :
          /\ tool_registry' = [tool_registry EXCEPT !.tools = @ \cup {name}]
          /\ reg_last' = Operation("register", <<name>>, <<>>, <<>>)
    /\ UNCHANGED <<parserVars, concurrentVars, loopVars, geminiVars, prunerVars, assemblerVars, detectorVars, orchVars>>

\* ToolRegistry::register_all_builtin
register_all_builtin ==
    /\ tool_registry' = [tool_registry EXCEPT !.tools = @ \cup all_tools]
    /\ reg_last' = Operation("register_all_builtin", <<>>, <<>>, <<>>)
    /\ UNCHANGED <<parserVars, concurrentVars, loopVars, geminiVars, prunerVars, assemblerVars, detectorVars, orchVars>>

\* ToolRegistry::execute
execute ==
    /\ \E call \in RegistryCalls :
          LET r == ToolRegistry_execute(tool_registry, call)
          IN  /\ tool_registry' = r.registry
              /\ reg_last' = Operation("execute", <<call>>, <<r.result>>, <<>>)
    /\ UNCHANGED <<parserVars, concurrentVars, loopVars, geminiVars, prunerVars, assemblerVars, detectorVars, orchVars>>

\* ToolRegistry::clear_picked
clear_picked ==
    /\ tool_registry' = [tool_registry EXCEPT !.picked_tools = {}]
    /\ reg_last' = Operation("clear_picked", <<>>, <<>>, <<>>)
    /\ UNCHANGED <<parserVars, concurrentVars, loopVars, geminiVars, prunerVars, assemblerVars, detectorVars, orchVars>>

\* ToolRegistry::get_tools_for_llm
tools_for_llm ==
    /\ \E tools \in get_tools_for_llm(tool_registry) :
          reg_last' = Operation("get_tools_for_llm", <<>>, <<>>, tools)
    /\ UNCHANGED <<parserVars, concurrentVars, loopVars, geminiVars, prunerVars, assemblerVars, detectorVars, orchVars,
                   tool_registry>>

has_picked_tools == tool_registry.picked_tools # {}

RegistryInit ==
    /\ GeminiIdle /\ ConcurrentIdle /\ ParserIdle
    /\ LoopIdle /\ PrunerIdle /\ AssemblerIdle /\ DetectorIdle /\ OrchIdle
    /\ tool_registry = ToolRegistry_new
    /\ reg_last = NoOperation

RegistryNext ==
    \/ register
    \/ register_all_builtin
    \/ execute
    \/ clear_picked
    \/ tools_for_llm

RegistrySpec == RegistryInit /\ [][RegistryNext]_vars

\* ------------------------------------------------------------------------
\* The Gemini adapter's request path (gemini.rs): the side map of the tool
\* calls it has numbered, and the request bodies built from the history of
\* its chat_loops. A round is the response frame that ends it and the
\* submission that answers it; a signature is a string, "" for None.
\* ------------------------------------------------------------------------
Signatures == {"", "sig"}

FunctionNames == {"f", "g"}

\* the id of a call the adapter has not numbered
ForeignCallId == 0

\* GeminiPart: a text, a functionCall or a functionResponse
GeminiPart(kind, name, thought_signature) ==
    [kind |-> kind, name |-> name, thought_signature |-> thought_signature]

\* the functionCall parts of the frame that ends a round
FunctionCallParts ==
    { <<GeminiPart("functionCall", n, s)>> : n \in FunctionNames, s \in Signatures }
        \cup { <<GeminiPart("functionCall", n, "sig"), GeminiPart("functionCall", m, "")>> :
                 n, m \in FunctionNames }

\* GeminiToolCallMeta
GeminiToolCallMeta(signature, function_name) ==
    [some |-> TRUE, signature |-> signature, function_name |-> function_name]

NoMeta == [some |-> FALSE, signature |-> "", function_name |-> ""]

\* the signature of the part is not kept
register_tool_call_NoSignature(map, call_id, meta) ==
    [k \in DOMAIN map \cup {call_id} |->
        IF k = call_id THEN [meta EXCEPT !.signature = ""] ELSE map[k]]

\* the counter is read and not advanced
next_call_id_Reuse(counter) == [id |-> counter, counter |-> counter]

\* GeminiProvider::next_call_id: call_counter.fetch_add(1)
next_call_id(counter) == [id |-> counter, counter |-> counter + 1]

\* GeminiProvider::register_tool_call
register_tool_call(map, call_id, meta) ==
    [k \in DOMAIN map \cup {call_id} |-> IF k = call_id THEN meta ELSE map[k]]

\* GeminiProvider::get_tool_signature
get_tool_signature(map, call_id) ==
    IF call_id \in DOMAIN map THEN map[call_id] ELSE NoMeta

\* GeminiProvider::parse_candidate_parts on functionCall parts:
\* [map, counter, tool_calls]
RECURSIVE parse_candidate_parts(_, _, _)
parse_candidate_parts(map, counter, parts) ==
    IF parts = <<>> THEN [map |-> map, counter |-> counter, tool_calls |-> <<>>]
    ELSE LET call_id == next_call_id(counter).id
             part == Head(parts)
             registered == register_tool_call(map, call_id,
                               GeminiToolCallMeta(part.thought_signature, part.name))
             rest == parse_candidate_parts(registered, next_call_id(counter).counter,
                                           Tail(parts))
         IN  [map |-> rest.map, counter |-> rest.counter,
              tool_calls |-> <<ToolCall(call_id, part.name, "args")>> \o rest.tool_calls]

\* GeminiProvider::build_request_body: the content of one message
GeminiContent(map, msg) ==
    CASE msg.role = "User" ->
            [role |-> "user", parts |-> <<GeminiPart("text", "", "")>>]
      [] msg.role = "Assistant" ->
            [role |-> "model",
             parts |-> (IF msg.content # <<>> THEN <<GeminiPart("text", "", "")>> ELSE <<>>)
                          \o [i \in 1..Len(msg.tool_calls) |->
                                GeminiPart("functionCall", msg.tool_calls[i].name,
                                           get_tool_signature(map, msg.tool_calls[i].id).signature)]]
      [] msg.role = "Tool" ->
            [role |-> "user",
             parts |-> <<GeminiPart("functionResponse",
                                    IF get_tool_signature(map, msg.tool_call_id).some
                                    THEN get_tool_signature(map, msg.tool_call_id).function_name
                                    ELSE "tool",
                                    "")>>]

\* GeminiProvider::build_request_body: the contents of a history without
\* System messages
build_request_body(map, h) == [i \in 1..Len(h) |-> GeminiContent(map, h[i])]

\* GeminiProvider::prune_message_tool_turns: the same ranges and drains on
\* Message as OpenAIProvider::prune_tool_turns on ChatMessage
prune_message_tool_turns(h, max_turns) == prune_tool_turns(h, max_turns)

\* the top of the loop: the history is pruned and the request body built
gm_request ==
    /\ gm_pc = "top"
    /\ LET pruned == prune_message_tool_turns(gm_history, gm_max_tool_turns)
       IN  /\ gm_history' = pruned
           /\ gm_body' = build_request_body(tool_call_meta, pruned)
    /\ gm_pc' = "stream"
    /\ UNCHANGED <<parserVars, concurrentVars, loopVars, prunerVars, assemblerVars, detectorVars, orchVars,
                   registryVars, gm_max_tool_turns, tool_call_meta, gm_call_counter,
                   gm_emitted>>

\* a frame with functionCall parts ends the round: the calls are numbered
\* and registered, the Assistant message is pushed, the calls are requested
gm_tool_calls ==
    /\ gm_pc = "stream"
    /\ gm_call_counter <= MaxGeminiCalls
    /\ Len(gm_history) < MaxGeminiHistory
    /\ \E parts \in FunctionCallParts, text \in {<<>>, <<"he">>} :
          LET parsed == parse_candidate_parts(tool_call_meta, gm_call_counter, parts)
          IN  /\ tool_call_meta' = parsed.map
              /\ gm_call_counter' = parsed.counter
              /\ gm_history' = Append(gm_history,
                                      Message("Assistant", text, 0, TRUE, parsed.tool_calls))
              /\ gm_emitted' = gm_emitted
                                  \o [i \in 1..Len(parts) |->
                                        [id |-> parsed.tool_calls[i].id,
                                         signature |-> parts[i].thought_signature,
                                         name |-> parts[i].name]]
    /\ gm_pc' = "await"
    /\ UNCHANGED <<parserVars, concurrentVars, loopVars, prunerVars, assemblerVars, detectorVars, orchVars,
                   registryVars, gm_max_tool_turns, gm_body>>

\* the submission is received: one Tool message per result, with the ids
\* of the requested calls or with the id of a call the adapter never made
gm_results ==
    /\ gm_pc = "await"
    /\ \E foreign \in BOOLEAN :
          LET tool_calls == gm_history[Len(gm_history)].tool_calls
              ids == IF foreign THEN <<ForeignCallId>>
                     ELSE [i \in 1..Len(tool_calls) |-> tool_calls[i].id]
          IN  gm_history' = gm_history
                               \o [i \in 1..Len(ids) |->
                                     Message("Tool", <<>>, ids[i], FALSE, <<>>)]
    /\ gm_pc' = "top"
    /\ UNCHANGED <<parserVars, concurrentVars, loopVars, prunerVars, assemblerVars, detectorVars, orchVars,
                   registryVars, gm_max_tool_turns, tool_call_meta, gm_call_counter,
                   gm_body, gm_emitted>>

\* the stream ends without a call: the text turn is pushed and the loop ends
gm_done ==
    /\ gm_pc = "stream"
    /\ gm_history' = Append(gm_history, Message("Assistant", <<"he">>, 0, FALSE, <<>>))
    /\ gm_pc' = "exited"
    /\ UNCHANGED <<parserVars, concurrentVars, loopVars, prunerVars, assemblerVars, detectorVars, orchVars,
                   registryVars, gm_max_tool_turns, tool_call_meta, gm_call_counter,
                   gm_body, gm_emitted>>

\* chat_loop is called again on the adapter with the history it left and a
\* new User message
gm_chat_loop ==
    /\ gm_pc = "exited"
    /\ Len(gm_history) < MaxGeminiHistory
    /\ gm_history' = Append(gm_history, UserMsg)
    /\ gm_pc' = "top"
    /\ UNCHANGED <<parserVars, concurrentVars, loopVars, prunerVars, assemblerVars, detectorVars, orchVars,
                   registryVars, gm_max_tool_turns, tool_call_meta, gm_call_counter,
                   gm_body, gm_emitted>>

\* GeminiProvider::new and its first chat_loop
GeminiInit ==
    /\ LoopIdle /\ PrunerIdle /\ AssemblerIdle /\ DetectorIdle /\ OrchIdle /\ RegistryIdle
    /\ ConcurrentIdle /\ ParserIdle
    /\ gm_pc = "top"
    /\ gm_max_tool_turns \in {0, 1}
    /\ gm_history \in GeminiInputs
    /\ tool_call_meta = <<>>
    /\ gm_call_counter = 1
    /\ gm_body = <<>>
    /\ gm_emitted = <<>>

GeminiNext ==
    \/ gm_request
    \/ gm_tool_calls
    \/ gm_results
    \/ gm_done
    \/ gm_chat_loop

GeminiSpec == GeminiInit /\ [][GeminiNext]_vars

\* ------------------------------------------------------------------------
\* Two tasks of one Gemini adapter parsing response frames at the same time
\* (gemini.rs): each functionCall part takes an id from the shared atomic
\* counter and is then registered in the shared side map under its lock.
\* ------------------------------------------------------------------------

\* task p reads a frame with functionCall parts
pc_frame(p) ==
    /\ parse_pc[p] = "idle"
    /\ gm_call_counter <= MaxGeminiCalls
    /\ \E parts \in FunctionCallParts : parse_parts' = [parse_parts EXCEPT ![p] = parts]
    /\ parse_pc' = [parse_pc EXCEPT ![p] = "next_call_id"]
    /\ UNCHANGED <<concurrentVars, loopVars, prunerVars, assemblerVars, detectorVars,
                   orchVars, registryVars, gm_pc, gm_max_tool_turns, gm_history,
                   tool_call_meta, gm_call_counter, gm_body, gm_emitted, parse_id>>

\* let call_id = self.next_call_id()
pc_next_call_id(p) ==
    /\ parse_pc[p] = "next_call_id"
    /\ LET next == next_call_id(gm_call_counter)
           part == Head(parse_parts[p])
       IN  /\ parse_id' = [parse_id EXCEPT ![p] = next.id]
           /\ gm_call_counter' = next.counter
           /\ gm_emitted' = Append(gm_emitted,
                                   [id |-> next.id, signature |-> part.thought_signature,
                                    name |-> part.name])
    /\ parse_pc' = [parse_pc EXCEPT ![p] = "register"]
    /\ UNCHANGED <<concurrentVars, loopVars, prunerVars, assemblerVars, detectorVars,
                   orchVars, registryVars, gm_pc, gm_max_tool_turns, gm_history,
                   tool_call_meta, gm_body, parse_parts>>

\* self.register_tool_call(call_id, meta), and the next part of the frame
pc_register_tool_call(p) ==
    /\ parse_pc[p] = "register"
    /\ LET part == Head(parse_parts[p])
       IN  tool_call_meta' =
              register_tool_call(tool_call_meta, parse_id[p],
                                 GeminiToolCallMeta(part.thought_signature, part.name))
    /\ parse_parts' = [parse_parts EXCEPT ![p] = Tail(@)]
    /\ parse_pc' = [parse_pc EXCEPT
                       ![p] = IF Tail(parse_parts[p]) = <<>> THEN "idle"
                              ELSE "next_call_id"]
    /\ UNCHANGED <<concurrentVars, loopVars, prunerVars, assemblerVars, detectorVars,
                   orchVars, registryVars, gm_pc, gm_max_tool_turns, gm_history,
                   gm_call_counter, gm_body, gm_emitted, parse_id>>

\* GeminiProvider::new, and two chat_loops reading their streams
GeminiIdInit ==
    /\ LoopIdle /\ PrunerIdle /\ AssemblerIdle /\ DetectorIdle /\ OrchIdle
    /\ RegistryIdle /\ GeminiIdle /\ ConcurrentIdle /\ ParserIdle

GeminiIdNext ==
    \E p \in Producers :
        \/ pc_frame(p)
        \/ pc_next_call_id(p)
        \/ pc_register_tool_call(p)

GeminiIdSpec == GeminiIdInit /\ [][GeminiIdNext]_vars

\* ------------------------------------------------------------------------
\* Two chat_loops on one OpenAI adapter (openai.rs): each call makes its own
\* pair of channels and spawns its own task; the tasks share the adapter's
\* state and history behind one RwLock each. A `+=` on a counter is a load
\* and a store made while the task holds the write guard.
\* ------------------------------------------------------------------------

\* s.input_tokens += ..; s.output_tokens += ..; s.request_count += 1
add_usage(s, token_usage) ==
    [s EXCEPT !.input_tokens = @ + token_usage.input_tokens,
              !.output_tokens = @ + token_usage.output_tokens,
              !.request_count = @ + 1]

\* a write guard is handed out whoever holds one
can_write_Shared(writers) == TRUE

\* RwLock::write returns when no other guard is held
can_write(writers) == writers = {}

\* a value sent on the event channel of this task
Sent(p, kind) == [from |-> p, kind |-> kind]

\* the history each chat_loop is called with
TaskInput(p) == <<Message("User", <<IF p = 1 THEN "one" ELSE "two">>, 0, FALSE, <<>>)>>

\* chat_loop: the channels are made and the task is spawned
cl_chat_loop(p) ==
    /\ task_pc[p] = "idle"
    /\ task_pc' = [task_pc EXCEPT ![p] = "request"]
    /\ current_history' = [current_history EXCEPT ![p] = TaskInput(p)]
    /\ UNCHANGED <<parserVars, loopVars, geminiVars, prunerVars, assemblerVars, detectorVars,
                   orchVars, registryVars, provider_state, provider_history,
                   state_writers, task_loaded, task_usage, task_rounds, event_rx,
                   tool_result_rx, consumed, handle_dropped, chunk_usage, store_writes>>

\* the request is answered with a stream
cl_response(p) ==
    /\ task_pc[p] = "request"
    /\ task_pc' = [task_pc EXCEPT ![p] = "stream"]
    /\ UNCHANGED <<parserVars, loopVars, geminiVars, prunerVars, assemblerVars, detectorVars,
                   orchVars, registryVars, provider_state, provider_history,
                   state_writers, current_history, task_loaded, task_usage,
                   task_rounds, event_rx, tool_result_rx, consumed, handle_dropped,
                   chunk_usage, store_writes>>

\* the request fails or its status is not a success: Err is sent and the
\* loop is left by break
cl_http_error(p) ==
    /\ task_pc[p] = "request"
    /\ event_rx' = [event_rx EXCEPT ![p] = Append(@, Sent(p, "Err"))]
    /\ task_pc' = [task_pc EXCEPT ![p] = "save"]
    /\ UNCHANGED <<parserVars, loopVars, geminiVars, prunerVars, assemblerVars, detectorVars,
                   orchVars, registryVars, provider_state, provider_history,
                   state_writers, current_history, task_loaded, task_usage,
                   task_rounds, tool_result_rx, consumed, handle_dropped,
                   chunk_usage, store_writes>>

\* the usage the vendor reports to task p in each of its rounds
ChunkUsage(p) == TokenUsage(p, 1, 0)

\* the usage-only chunk of the round arrives, after tool call deltas or not
cl_usage_chunk(p) ==
    /\ task_pc[p] = "stream"
    /\ \E tool_calls \in BOOLEAN :
          /\ task_usage' = [task_usage EXCEPT
                               ![p] = [usage |-> ChunkUsage(p), tool_calls |-> tool_calls]]
          /\ chunk_usage' = [chunk_usage EXCEPT ![p] = add_usage(@, ChunkUsage(p))]
    /\ task_pc' = [task_pc EXCEPT ![p] = "state.write"]
    /\ UNCHANGED <<parserVars, loopVars, geminiVars, prunerVars, assemblerVars, detectorVars,
                   orchVars, registryVars, provider_state, provider_history,
                   state_writers, current_history, task_loaded, task_rounds,
                   event_rx, tool_result_rx, consumed, handle_dropped, store_writes>>

\* state.write(): the task gets the write guard of the state
cl_state_write(p) ==
    /\ task_pc[p] = "state.write"
    /\ can_write(state_writers)
    /\ state_writers' = state_writers \cup {p}
    /\ task_pc' = [task_pc EXCEPT ![p] = "load"]
    /\ UNCHANGED <<parserVars, loopVars, geminiVars, prunerVars, assemblerVars, detectorVars,
                   orchVars, registryVars, provider_state, provider_history,
                   current_history, task_loaded, task_usage, task_rounds, event_rx,
                   tool_result_rx, consumed, handle_dropped, chunk_usage,
                   store_writes>>

\* the counters are read through the guard
cl_load(p) ==
    /\ task_pc[p] = "load"
    /\ task_loaded' = [task_loaded EXCEPT ![p] = provider_state]
    /\ task_pc' = [task_pc EXCEPT ![p] = "store"]
    /\ UNCHANGED <<parserVars, loopVars, geminiVars, prunerVars, assemblerVars, detectorVars,
                   orchVars, registryVars, provider_state, provider_history,
                   state_writers, current_history, task_usage, task_rounds,
                   event_rx, tool_result_rx, consumed, handle_dropped, chunk_usage,
                   store_writes>>

\* the sums are written, the guard is dropped, and the event of the usage
\* chunk is sent: ToolCallsRequested if calls were assembled, Done if not
cl_store(p) ==
    /\ task_pc[p] = "store"
    /\ provider_state' = add_usage(task_loaded[p], task_usage[p].usage)
    /\ state_writers' = state_writers \ {p}
    /\ event_rx' = [event_rx EXCEPT
                       ![p] = Append(@, Sent(p, IF task_usage[p].tool_calls
                                                THEN "ToolCallsRequested" ELSE "Done"))]
    /\ task_pc' = [task_pc EXCEPT ![p] = "tail"]
    /\ UNCHANGED <<parserVars, loopVars, geminiVars, prunerVars, assemblerVars, detectorVars,
                   orchVars, registryVars, provider_history, current_history,
                   task_loaded, task_usage, task_rounds, tool_result_rx, consumed,
                   handle_dropped, chunk_usage, store_writes>>

\* a stream error or a chunk that does not parse: Err is sent and the task
\* returns
cl_stream_error(p) ==
    /\ task_pc[p] \in {"stream", "tail"}
    /\ event_rx' = [event_rx EXCEPT ![p] = Append(@, Sent(p, "Err"))]
    /\ task_pc' = [task_pc EXCEPT ![p] = "exited"]
    /\ UNCHANGED <<parserVars, loopVars, geminiVars, prunerVars, assemblerVars, detectorVars,
                   orchVars, registryVars, provider_state, provider_history,
                   state_writers, current_history, task_loaded, task_usage,
                   task_rounds, tool_result_rx, consumed, handle_dropped,
                   chunk_usage, store_writes>>

\* the stream ends: the results are awaited if the finish reason is
\* tool_calls, the loop is left if not
cl_stream_end(p) ==
    /\ task_pc[p] \in {"stream", "tail"}
    /\ \E current_finish_reason \in {"tool_calls", "stop"} :
          IF current_finish_reason = "tool_calls"
          THEN /\ task_rounds[p] < MaxLoopRounds
               /\ task_pc' = [task_pc EXCEPT ![p] = "recv"]
          ELSE task_pc' = [task_pc EXCEPT ![p] = "save"]
    /\ UNCHANGED <<parserVars, loopVars, geminiVars, prunerVars, assemblerVars, detectorVars,
                   orchVars, registryVars, provider_state, provider_history,
                   state_writers, current_history, task_loaded, task_usage,
                   task_rounds, event_rx, tool_result_rx, consumed, handle_dropped,
                   chunk_usage, store_writes>>

\* tool_result_rx.recv() returns a submission: the Assistant message and the
\* Tool message are pushed, ToolResultsReceived is sent, the next round starts
cl_recv_results(p) ==
    /\ task_pc[p] = "recv"
    /\ tool_result_rx[p] # <<>>
    /\ LET submission == Head(tool_result_rx[p])
       IN  /\ consumed' = [consumed EXCEPT ![p] = Append(@, submission)]
           /\ current_history' =
                 [current_history EXCEPT
                     ![p] = @ \o <<Message("Assistant", <<>>, 0, TRUE, <<>>),
                                   Message("Tool", <<"out">>, submission.tool_call_id,
                                           FALSE, <<>>)>>]
    /\ tool_result_rx' = [tool_result_rx EXCEPT ![p] = Tail(@)]
    /\ event_rx' = [event_rx EXCEPT ![p] = Append(@, Sent(p, "ToolResultsReceived"))]
    /\ task_rounds' = [task_rounds EXCEPT ![p] = @ + 1]
    /\ task_pc' = [task_pc EXCEPT ![p] = "request"]
    /\ UNCHANGED <<parserVars, loopVars, geminiVars, prunerVars, assemblerVars, detectorVars,
                   orchVars, registryVars, provider_state, provider_history,
                   state_writers, task_loaded, task_usage, handle_dropped,
                   chunk_usage, store_writes>>

\* tool_result_rx.recv() returns None: the handle is gone and nothing is
\* queued
cl_recv_none(p) ==
    /\ task_pc[p] = "recv"
    /\ tool_result_rx[p] = <<>>
    /\ handle_dropped[p]
    /\ task_pc' = [task_pc EXCEPT ![p] = "save"]
    /\ UNCHANGED <<parserVars, loopVars, geminiVars, prunerVars, assemblerVars, detectorVars,
                   orchVars, registryVars, provider_state, provider_history,
                   state_writers, current_history, task_loaded, task_usage,
                   task_rounds, event_rx, tool_result_rx, consumed, handle_dropped,
                   chunk_usage, store_writes>>

\* after the loop: *hist = current_history under the write guard of the
\* history
cl_save_history(p) ==
    /\ task_pc[p] = "save"
    /\ provider_history' = current_history[p]
    /\ store_writes' = Append(store_writes, p)
    /\ task_pc' = [task_pc EXCEPT ![p] = "exited"]
    /\ UNCHANGED <<parserVars, loopVars, geminiVars, prunerVars, assemblerVars, detectorVars,
                   orchVars, registryVars, provider_state, state_writers,
                   current_history, task_loaded, task_usage, task_rounds, event_rx,
                   tool_result_rx, consumed, handle_dropped, chunk_usage>>

\* a ToolCallsRequested sent on the handle of task h has no submission yet
Outstanding(h) ==
    Len(consumed[h]) + Len(tool_result_rx[h])
        < Cardinality({ i \in 1..Len(event_rx[h]) :
                          event_rx[h][i].kind = "ToolCallsRequested" })

\* ChatLoopHandle::submit_tool_results on the handle of task h: the send
\* returns Ok while the task holds the receiver, whether a ToolCallsRequested
\* is outstanding or not; the consumer submits early at most once, as its
\* first submission
cl_submit_tool_results(h) ==
    /\ ~handle_dropped[h]
    /\ task_pc[h] \notin {"idle", "exited"}
    /\ Len(consumed[h]) + Len(tool_result_rx[h]) < MaxLoopRounds
    /\ Outstanding(h) \/ consumed[h] \o tool_result_rx[h] = <<>>
    /\ tool_result_rx' = [tool_result_rx EXCEPT
                             ![h] = Append(@, [on |-> h, tool_call_id |-> h,
                                               outstanding |-> Outstanding(h)])]
    /\ UNCHANGED <<parserVars, loopVars, geminiVars, prunerVars, assemblerVars, detectorVars,
                   orchVars, registryVars, provider_state, provider_history,
                   state_writers, task_pc, current_history, task_loaded, task_usage,
                   task_rounds, event_rx, consumed, handle_dropped, chunk_usage,
                   store_writes>>

\* the handle of task h is dropped
cl_drop_handle(h) ==
    /\ task_pc[h] # "idle"
    /\ ~handle_dropped[h]
    /\ handle_dropped' = [handle_dropped EXCEPT ![h] = TRUE]
    /\ UNCHANGED <<parserVars, loopVars, geminiVars, prunerVars, assemblerVars, detectorVars,
                   orchVars, registryVars, provider_state, provider_history,
                   state_writers, task_pc, current_history, task_loaded, task_usage,
                   task_rounds, event_rx, tool_result_rx, consumed, chunk_usage,
                   store_writes>>

\* OpenAIProvider::new
ConcurrentInit ==
    /\ LoopIdle /\ PrunerIdle /\ AssemblerIdle /\ DetectorIdle /\ OrchIdle
    /\ RegistryIdle /\ GeminiIdle /\ ConcurrentIdle /\ ParserIdle

ConcurrentNext ==
    \E p \in Producers :
        \/ cl_chat_loop(p)
        \/ cl_response(p)
        \/ cl_http_error(p)
        \/ cl_usage_chunk(p)
        \/ cl_state_write(p)
        \/ cl_load(p)
        \/ cl_store(p)
        \/ cl_stream_error(p)
        \/ cl_stream_end(p)
        \/ cl_recv_results(p)
        \/ cl_recv_none(p)
        \/ cl_save_history(p)
        \/ cl_submit_tool_results(p)
        \/ cl_drop_handle(p)

ConcurrentSpec == ConcurrentInit /\ [][ConcurrentNext]_vars

\* ------------------------------------------------------------------------
\* Notions the properties use
\* ------------------------------------------------------------------------
Last(q) == q[Len(q)]

Positions(kind) == {i \in 1..Len(events) : events[i].kind = kind}

\* the items next() has returned so far
Delivered == SubSeq(events, 1, nread)

DoneReceived == \E i \in 1..nread : events[i].kind = "Done"

\* I1 for the tool-calling Assistant message at position i of h
TurnComplete(h, i) ==
    LET k == Len(h[i].tool_calls)
    IN  /\ i + k <= Len(h)
        /\ \A j \in 1..k : /\ h[i + j].role = "Tool"
                           /\ h[i + j].tool_call_id = h[i].tool_calls[j]
        /\ i + k + 1 <= Len(h) => h[i + k + 1].role # "Tool"

WellFormed(h) ==
    \A i \in 1..Len(h) :
        (h[i].role = "Assistant" /\ h[i].has_calls /\ Len(h[i].tool_calls) >= 1)
            => TurnComplete(h, i)

RECURSIVE SumUsage(_)
SumUsage(us) ==
    IF us = <<>> THEN ZeroUsage ELSE AddUsage(Head(us), SumUsage(Tail(us)))

\* the calls of the ToolCallsRequested events among evs, in emission order
RECURSIVE RequestedCalls(_)
RequestedCalls(evs) ==
    IF evs = <<>> THEN <<>>
    ELSE (IF Head(evs).kind = "ToolCallsRequested" THEN Head(evs).calls ELSE <<>>)
         \o RequestedCalls(Tail(evs))

\* the message list of the request whose answer is being streamed: the
\* vendor-shape list (OpenAI) or the one built from history (Anthropic, Gemini)
request_messages == IF vendor = "openai" THEN messages ELSE history

\* number of tool turns of a message list
Turns(h) == Cardinality({i \in 1..Len(h) : h[i].role = "Assistant" /\ h[i].has_calls})

\* a vendor-shape list and a uniform history hold the same messages
SameMessages(ms, h) ==
    /\ Len(ms) = Len(h)
    /\ \A i \in 1..Len(h) :
          /\ ms[i].role = h[i].role
          /\ ms[i].content = h[i].content
          /\ ms[i].tool_call_id = h[i].tool_call_id
          /\ ms[i].has_calls = h[i].has_calls
          /\ ms[i].tool_calls = h[i].tool_calls

\* positions of the tool-calling Assistant messages of h
TurnStarts(h) == {i \in 1..Len(h) : h[i].role = "Assistant" /\ h[i].has_calls}

\* position p of h lies in the tool turn that starts at s
InTurn(h, s, p) ==
    /\ s \in TurnStarts(h)
    /\ s <= p
    /\ \A q \in (s + 1)..p : h[q].role = "Tool"

\* the starts of the tool turns of h that at least n tool turns follow
OldTurns(h, n) == {s \in TurnStarts(h) : Cardinality({t \in TurnStarts(h) : t > s}) >= n}

\* the messages of h at the positions of P, in order
RECURSIVE Restrict(_, _, _)
Restrict(h, P, i) ==
    IF i > Len(h) THEN <<>>
    ELSE (IF i \in P THEN <<h[i]>> ELSE <<>>) \o Restrict(h, P, i + 1)

\* h without the messages of all but its last n tool turns
WithoutOldTurns(h, n) ==
    Restrict(h, {p \in 1..Len(h) : ~\E s \in OldTurns(h, n) : InTurn(h, s, p)}, 1)

\* I2: every Tool message lies in the tool turn of an Assistant message that
\* carries its id
NoOrphanTool(h) ==
    \A p \in 1..Len(h) :
        h[p].role = "Tool"
            => \E s \in 1..p : /\ InTurn(h, s, p)
                                /\ \E j \in 1..Len(h[s].tool_calls) :
                                      h[s].tool_calls[j] = h[p].tool_call_id

Min(a, b) == IF a <= b THEN a ELSE b

\* the call ids of a delta sequence
IdsOf(d) == {d[i].id : i \in 1..Len(d)}

\* the fragments of the deltas of d for id, concatenated in arrival order
RECURSIVE FragmentsOf(_, _)
FragmentsOf(d, id) ==
    IF d = <<>> THEN <<>>
    ELSE (IF Head(d).id = id THEN Head(d).arguments_delta ELSE <<>>)
         \o FragmentsOf(Tail(d), id)

\* an assembler after the deltas of d were processed in order
RECURSIVE Feed(_, _)
Feed(calls_, d) ==
    IF d = <<>> THEN calls_
    ELSE Feed(ToolCallAssembler_process_delta(calls_, Head(d).id, Head(d).name,
                                              Head(d).arguments_delta),
              Tail(d))

\* the last operation on the detector was check(Checked), with Before the
\* calls checked earlier, oldest first
CheckDone == last_check.op = "check"
Checked == recorded[Len(recorded)]
Before == SubSeq(recorded, 1, Len(recorded) - 1)

\* same name and equal arguments, whatever the ids
SameCall(a, b) == a.name = b.name /\ a.arguments = b.arguments

\* how many of the last exact_window_size calls of W equal C
DupCount(W, C) ==
    Cardinality({i \in 1..Len(W) : /\ i > Len(W) - det_config.exact_window_size
                                   /\ SameCall(W[i], C)})

\* check reported ExactDuplicate exactly when DupCount reached
\* max_exact_duplicates, with count DupCount + 1
ExactDuplicateRule ==
    CheckDone
        => LET n == DupCount(Before, Checked)
           IN  /\ last_check.result.loop_type = "ExactDuplicate"
                     <=> n >= det_config.max_exact_duplicates
               /\ last_check.result.loop_type = "ExactDuplicate"
                     => /\ last_check.result.count = n + 1
                        /\ last_check.result.call = <<Checked>>

\* the calls checked so far were all the same call
AllIdentical == \A i \in 1..Len(recorded) : SameCall(recorded[i], Checked)

\* of identical calls the first max_exact_duplicates return no detection and
\* the next one is detected with count max_exact_duplicates + 1
FirstDuplicatesPass ==
    (CheckDone /\ AllIdentical)
        => /\ Len(recorded) <= det_config.max_exact_duplicates
                 => ~last_check.result.detected
           /\ Len(recorded) = det_config.max_exact_duplicates + 1
                 => /\ last_check.result.loop_type = "ExactDuplicate"
                    /\ last_check.result.count = det_config.max_exact_duplicates + 1

\* the calls the detector held when the last check began: the newest
\* max(exact_window_size, pattern_window_size) of the calls checked before
BufferBefore ==
    LastN(Before, Max(det_config.exact_window_size, det_config.pattern_window_size))

\* the lengths L for which W ends in two equal blocks of L calls that C
\* continues
CycleLengths(W, C) ==
    { L \in det_config.min_pattern_length..det_config.max_pattern_length :
        /\ Len(W) >= 2 * L
        /\ \A i \in 1..L : SameCall(W[Len(W) - L + i], W[Len(W) - 2 * L + i])
        /\ SameCall(C, W[Len(W) - L + 1]) }

SetMin(S) == CHOOSE x \in S : \A y \in S : x <= y

\* the calls checked so far repeat a cycle of p distinct calls
Cyclic(p) ==
    /\ \A i \in 1..Len(recorded) :
          i > p => SameCall(recorded[i], recorded[i - p])
    /\ \A i, j \in 1..Len(recorded) :
          (i < j /\ j <= p) => ~SameCall(recorded[i], recorded[j])

\* a cycle of p distinct calls is detected on call 2p + 1 as Pattern of the
\* p calls before it, and on no earlier call
CycleDetected(p) ==
    (CheckDone /\ Cyclic(p) /\ Len(recorded) >= p)
        => /\ Len(recorded) <= 2 * p => ~last_check.result.detected
           /\ ( /\ Len(recorded) = 2 * p + 1
                /\ det_config.enable_pattern_detection
                /\ DupCount(Before, Checked) < det_config.max_exact_duplicates
                /\ p \in det_config.min_pattern_length..det_config.max_pattern_length
                /\ Len(BufferBefore) >= 2 * p )
                 => /\ last_check.result.loop_type = "Pattern"
                    /\ last_check.result.pattern = SubSeq(recorded, p + 1, 2 * p)
                    /\ last_check.result.repetitions = 2

\* ------------------------------------------------------------------------
\* Properties
\* ------------------------------------------------------------------------
\* C1: once a producer has exited and written the history store, every
\* Assistant message of get_history with k >= 1 tool calls is immediately
\* followed by exactly k Tool messages with the calls' ids, in call order.
C1_HistoryWellFormed == (Exited /\ store # <<>>) => WellFormed(get_history)

\* C2: once next() has returned a Done event it returns no further item.
C2_DoneIsTerminal == \A i \in 1..nread : events[i].kind = "Done" => i = nread

\* C3: the producer consumes no submission in a round in which it emitted no
\* ToolCallsRequested, and when it starts the next HTTP round or leaves its
\* loop on its own it has consumed one submission per ToolCallsRequested of
\* the round.
C3_OneSubmissionPerRequest ==
    /\ consRound <= reqRound
    /\ (pc = "top" \/ (pc \in {"write", "exited"} /\ exitCause # "closed"))
          => consRound = reqRound

C5_ExitWritesHistory == Exited => get_history = history

\* C6: with the handle dropped, a producer that is at its await for results
\* exits there: it does not go back to the top of its loop for another HTTP
\* round.
C6_NoRoundAfterDrop ==
    [][(dropped /\ pc = "await") => pc' \in {"await", "write"}]_vars

\* C7: submit_tool_results fails only when the producer has exited, is_active
\* is false exactly then, and a submission that returned Ok is consumed: none
\* is left in the channel of a producer that has exited.
C7_OkSubmissionConsumed ==
    /\ lastSubmit = "ChatLoopClosed" => Exited
    /\ is_active <=> pc # "exited"
    /\ Exited => results = <<>>

\* C8: once the consumer has received Done, get_history returns the history
\* the loop accumulated.
C8_HistoryAfterDone == DoneReceived => get_history = history

\* C9: the usage of a Done event is the component-wise sum of the usage the
\* vendor reported in the rounds of the loop.
C9_DoneUsageIsSum ==
    (events # <<>> /\ Last(events).kind = "Done")
        => Last(events).usage = SumUsage(reported)

\* C10: all_tool_calls of a Done event lists the calls of the loop's
\* ToolCallsRequested events, in emission order.
C10_DoneListsAllCalls ==
    (events # <<>> /\ Last(events).kind = "Done")
        => Last(events).calls = RequestedCalls(events)

\* C11: a single round that ends with Done and no tool call leaves a
\* text-only Assistant message holding the content of the round at the end
\* of the history store; for an input without tool turns the store is the
\* input followed by exactly that message.
C11_TextTurnAppended ==
    (Exited /\ round = 1 /\ ~dropped /\ events # <<>> /\ Last(events).kind = "Done")
        => LET reply == Message("Assistant", Last(events).text, 0, FALSE, <<>>)
           IN  /\ get_history # <<>>
               /\ Last(get_history) = reply
               /\ Turns(input) = 0 => get_history = Append(input, reply)

\* C13: with max_tool_turns = n >= 1 the message list of every request sent,
\* the first included, holds at most n tool turns.
C13_RequestsPruned ==
    (pc = "stream" /\ max_tool_turns >= 1) => Turns(request_messages) <= max_tool_turns

\* C14: between rounds and after the loop the vendor-shape message list and
\* the uniform history hold the same sequence of messages.
C14_HistoryPrunedAlike ==
    (vendor = "openai" /\ pc \in {"top", "write", "exited"}) => SameMessages(messages, history)

\* C12: a call of the pruner with max_turns >= 1 removes exactly the
\* messages of all but the last max_turns tool turns: every other message
\* stays, in order, min(turns, max_turns) tool turns are left, and a list
\* that satisfied I1 and I2 still satisfies them.
C12_PruneWholeTurns ==
    prune_arg >= 1
        => /\ hist = WithoutOldTurns(pruned_from, prune_arg)
           /\ Turns(hist) = Min(Turns(pruned_from), prune_arg)
           /\ (WellFormed(pruned_from) /\ NoOrphanTool(pruned_from))
                 => (WellFormed(hist) /\ NoOrphanTool(hist))

\* C12, witness: a call with max_turns = 1 has removed the older of two
\* complete tool turns and kept the newer one and a User message.
C12_Witness ==
    /\ prune_arg = 1
    /\ Turns(pruned_from) = 2
    /\ WellFormed(pruned_from)
    /\ NoOrphanTool(pruned_from)
    /\ \E i \in 1..Len(hist) : hist[i].role = "User"
    /\ Len(hist) = 3
    /\ Len(pruned_from) = 5

\* C15: when the fragments of each of the k call ids of a delta sequence
\* concatenate, in arrival order, to a parsable argument string,
\* into_tool_calls returns k calls, one per id, each with the arguments parsed
\* from that concatenation; and processing the sequence in two halves, split
\* anywhere, leaves an assembler with the same results as processing it whole.
C15_AssemblerInterleaving ==
    /\ (asm_result.called /\ \A id \in IdsOf(fed) : ParseJson(FragmentsOf(fed, id)).ok)
          => /\ asm_result.ok
             /\ Len(asm_result.tool_calls) = Cardinality(IdsOf(fed))
             /\ {asm_result.tool_calls[i].id : i \in 1..Len(asm_result.tool_calls)}
                    = IdsOf(fed)
             /\ \A i \in 1..Len(asm_result.tool_calls) :
                    asm_result.tool_calls[i].arguments
                       = ParseJson(FragmentsOf(fed, asm_result.tool_calls[i].id)).value
    /\ \A i \in 0..Len(fed) :
          LET halves == Feed(Feed(ToolCallAssembler_new, SubSeq(fed, 1, i)),
                             SubSeq(fed, i + 1, Len(fed)))
          IN  /\ halves = asm_calls
              /\ ToolCallAssembler_into_tool_calls(halves)
                    = ToolCallAssembler_into_tool_calls(Feed(ToolCallAssembler_new, fed))

\* C15, witness: two calls were assembled from three deltas, the fragments of
\* one call arriving around the delta of the other.
C15_Witness ==
    /\ asm_result.called
    /\ asm_result.ok
    /\ Len(asm_result.tool_calls) = 2
    /\ Len(fed) = 3
    /\ fed[1].id = fed[3].id
    /\ fed[2].id # fed[1].id
    /\ fed[1].arguments_delta = <<"{">>
    /\ fed[3].arguments_delta = <<"}">>

\* C16 as stated: check(C) reports ExactDuplicate exactly when at least
\* max_exact_duplicates of the last exact_window_size recorded calls equal C,
\* with count that number plus one; and, whatever the configuration, of
\* identical calls the first max_exact_duplicates return no detection and the
\* next one is detected.
C16_Original == ExactDuplicateRule /\ FirstDuplicatesPass

\* C16 as amended: the same rule; the consequence for identical calls holds
\* when the exact window holds max_exact_duplicates calls and pattern
\* detection is disabled or max_exact_duplicates <= 2 * min_pattern_length.
C16_ExactDuplicate ==
    /\ ExactDuplicateRule
    /\ ( /\ det_config.exact_window_size >= det_config.max_exact_duplicates
         /\ \/ ~det_config.enable_pattern_detection
            \/ det_config.max_exact_duplicates <= 2 * det_config.min_pattern_length )
          => FirstDuplicatesPass

\* C16, witness: with max_exact_duplicates = 3 and pattern detection enabled
\* the fourth of four identical calls, which differ in their ids, was
\* detected as an exact duplicate with count 4.
C16_Witness ==
    /\ CheckDone
    /\ AllIdentical
    /\ det_config.max_exact_duplicates = 3
    /\ det_config.enable_pattern_detection
    /\ Len(recorded) = 4
    /\ last_check.result.loop_type = "ExactDuplicate"
    /\ last_check.result.count = 4
    /\ Checked.id # recorded[1].id

\* C17: with pattern detection enabled and no exact-duplicate hit, check(C)
\* reports Pattern with repetitions 2 for the smallest L in
\* [min_pattern_length, max_pattern_length] such that the detector holds at
\* least 2L calls, its last L calls equal the L before them pairwise and C
\* equals the first call of the last L; the pattern is those last L calls,
\* oldest first; and there is no detection when there is no such L. So
\* A,B,A,B then A is detected on the 5th call as Pattern [A,B] and
\* A,B,C,A,B,C then A on the 7th as a pattern of length 3, with no detection
\* on an earlier call.
C17_PatternRule ==
    /\ ( /\ CheckDone
         /\ det_config.enable_pattern_detection
         /\ DupCount(Before, Checked) < det_config.max_exact_duplicates )
          => LET W == BufferBefore
                 Ls == CycleLengths(W, Checked)
             IN  IF Ls = {} THEN ~last_check.result.detected
                 ELSE /\ last_check.result.loop_type = "Pattern"
                      /\ last_check.result.repetitions = 2
                      /\ last_check.result.pattern
                            = SubSeq(W, Len(W) - SetMin(Ls) + 1, Len(W))
    /\ CycleDetected(2)
    /\ CycleDetected(3)

\* C17, witness: A,B,C,A,B,C then A, with patterns of length 2 and 3 looked
\* for, was detected on the 7th call as the pattern of calls 4, 5, 6.
C17_Witness ==
    /\ CheckDone
    /\ Len(recorded) = 7
    /\ Cyclic(3)
    /\ det_config.min_pattern_length = 2
    /\ last_check.result.loop_type = "Pattern"
    /\ Len(last_check.result.pattern) = 3
    /\ last_check.result.pattern[1].id = 4
    /\ last_check.result.pattern[1].name = recorded[7].name
    /\ last_check.result.pattern[1].arguments = recorded[7].arguments

\* the action the configuration gives for the n-th detection
PolicyAction(n) ==
    IF n = 1 THEN det_config.first_detection_action
    ELSE IF n = 2 THEN det_config.second_detection_action
    ELSE det_config.third_detection_action

\* C18: a check that detects raises the detection count by exactly one and a
\* check that does not leaves it as it was; the detection carries the new
\* count and the action of the first, second or third slot for a count of 1,
\* 2, or 3 and more (Warn, Warn, Terminate by default); it carries a warning
\* message exactly when that action is Warn.
C18_ActionPolicy ==
    /\ DefaultConfig.first_detection_action = "Warn"
    /\ DefaultConfig.second_detection_action = "Warn"
    /\ DefaultConfig.third_detection_action = "Terminate"
    /\ CheckDone
          => IF last_check.result.detected
             THEN /\ detection_count = last_check.count_before + 1
                  /\ last_check.result.detection_count = detection_count
                  /\ last_check.result.action = PolicyAction(detection_count)
                  /\ last_check.result.warning_message
                        <=> last_check.result.action = "Warn"
             ELSE /\ detection_count = last_check.count_before
                  /\ ~last_check.result.warning_message

\* C18, witness: a fourth detection in a row was given the action of the
\* third slot, which differs from the actions of the other two slots.
C18_Witness ==
    /\ CheckDone
    /\ last_check.result.detected
    /\ detection_count = 4
    /\ last_check.result.action = det_config.third_detection_action
    /\ det_config.third_detection_action # det_config.second_detection_action
    /\ det_config.third_detection_action # det_config.first_detection_action

\* the lengths k of the suffixes W of the calls checked before the last one
\* that fit the detector's window and on which a detector holding just W
\* reports a detection for the call checked last
DetectingSuffixes ==
    { k \in 0..Min(Len(Before), Max(det_config.exact_window_size,
                                     det_config.pattern_window_size)) :
        Detect(det_config, LastN(Before, k), Checked).detected }

\* C19: when check(C) reports a detection with the recorded calls W, it also
\* reports one with any longer sequence of recorded calls that ends in W, for
\* every configuration and every W that fits the detector's window.
C19_Monotone ==
    (CheckDone /\ DetectingSuffixes # {}) => last_check.result.detected

\* C19, witness: a call was detected after six others by a detector whose
\* window holds four calls, and would have been detected after the last two
\* of them alone.
C19_Witness ==
    /\ CheckDone
    /\ last_check.result.detected
    /\ Len(recorded) = 7
    /\ Max(det_config.exact_window_size, det_config.pattern_window_size) = 4
    /\ 2 \in DetectingSuffixes
    /\ 1 \notin DetectingSuffixes

\* a detector configuration that terminates on its first detection
TerminateConfig == [DefaultConfig EXCEPT !.first_detection_action = "Terminate"]

\* what a detector of that configuration that was given the requested calls
\* before the n-th returns for the n-th, none of them having been detected
TerminateVerdict(n) ==
    LET calls == CallsOf(requested)
        held(k) == LastN(SubSeq(calls, 1, k - 1),
                         Max(TerminateConfig.exact_window_size,
                             TerminateConfig.pattern_window_size))
    IN  IF \E k \in 1..(n - 1) : Detect(TerminateConfig, held(k), calls[k]).detected
        THEN NoDetection
        ELSE LET detection == Detect(TerminateConfig, held(n), calls[n])
             IN  IF detection.detected
                 THEN apply_action_policy(TerminateConfig, 1, detection)
                 ELSE NoDetection

\* C20: when the loop detector returns Terminate for a requested call,
\* chat_loop_with_tools returns the error "Loop detected" without giving the
\* call to an executor and without submitting results for it; so of four
\* identical tool-call rounds in a row only three reach an executor.
C20_TerminateOnLoop ==
    \A n \in 1..Len(CallsOf(requested)) :
        (rounds <= chat_config.max_rounds /\ TerminateVerdict(n).action = "Terminate")
            => /\ \A i \in 1..Len(executed) : executed[i].call.id # CallsOf(requested)[n].id
               /\ \A i \in 1..Len(submitted) : \A j \in 1..Len(submitted[i].results) :
                      submitted[i].results[j].tool_call_id # CallsOf(requested)[n].id
               /\ response.kind = "Err"
               /\ response.error = <<"Loop detected">>

\* the calls of the rounds that came after the max_rounds-th
OverBudgetCalls ==
    CallsOf(SubSeq(requested, chat_config.max_rounds + 1, Len(requested)))

\* C21: chat_loop_with_tools counts every ToolCallsRequested it receives,
\* over pick-tool restarts too; when the count exceeds max_rounds it returns
\* the error "Maximum rounds (N) exceeded" with N = max_rounds, executes no
\* call of that round and submits no results for it; so tools are executed
\* in at most max_rounds rounds and a successful response has
\* rounds <= max_rounds.
C21_MaxRounds ==
    /\ rounds = Len(requested)
    /\ rounds > chat_config.max_rounds
          => /\ rounds = chat_config.max_rounds + 1
             /\ response.kind = "Err"
             /\ response.error = <<"Maximum rounds (", chat_config.max_rounds, ") exceeded">>
    /\ \A i \in 1..Len(OverBudgetCalls) :
          /\ \A j \in 1..Len(executed) : executed[j].call.id # OverBudgetCalls[i].id
          /\ \A j \in 1..Len(submitted) : \A k \in 1..Len(submitted[j].results) :
                submitted[j].results[k].tool_call_id # OverBudgetCalls[i].id
    /\ Len(submitted) + (handle.gen - 1) <= chat_config.max_rounds
    /\ response.kind = "Ok" => response.rounds <= chat_config.max_rounds

\* C21, witness: with max_rounds = 2 a round that restarted the chat_loop
\* after pick_tool and a round whose results were submitted were followed by
\* a third request, which was refused with nothing more executed.
C21_Witness ==
    /\ chat_config.max_rounds = 2
    /\ rounds = 3
    /\ handle.gen = 2
    /\ Len(submitted) = 1
    /\ Len(executed) = 2
    /\ response.kind = "Err"
    /\ response.error = <<"Maximum rounds (", 2, ") exceeded">>

\* the registered providers that are not picked
Unpicked == tool_registry.tools \ tool_registry.picked_tools

\* the positions of the Tools named name in a list of Tools
Named(tools, name) == {i \in 1..Len(tools) : tools[i].name = name}

GotTools == reg_last.op = "get_tools_for_llm"

Executed == reg_last.op = "execute"

MetaNames == {"pick_tool", "pick_tools"}

\* C24: execute on a call of a registered provider adds the provider's name
\* to picked_tools if and only if the execution succeeds; a failed execution
\* and a call of a name that is neither registered nor the meta-tool return
\* a result with is_error and the call's id, the second listing the
\* available names, and leave picked_tools as it was.
C24_ExecutePicksOnSuccess ==
    (Executed /\ reg_last.call[1].name \notin MetaNames)
        => LET call == reg_last.call[1]
               result == reg_last.result[1]
               before == reg_last.before
           IN  /\ result.tool_call_id = call.id
               /\ tool_registry.tools = before.tools
               /\ call.name \in before.tools
                     => /\ result.is_error <=> ~tool_execute(call)
                        /\ tool_registry.picked_tools
                              = IF result.is_error THEN before.picked_tools
                                ELSE before.picked_tools \cup {call.name}
               /\ call.name \notin before.tools
                     => /\ result.is_error
                        /\ result.content = <<"Tool not found", call.name, before.tools>>
                        /\ tool_registry.picked_tools = before.picked_tools

\* C24, witness: a provider that was registered and not picked failed, and
\* is still not picked.
C24_Witness ==
    /\ Executed
    /\ reg_last.call[1].name = "bash"
    /\ reg_last.call[1].id = 2
    /\ reg_last.result[1].is_error
    /\ reg_last.before.tools = all_tools
    /\ reg_last.before.picked_tools = {"editor__Edit"}
    /\ tool_registry.picked_tools = {"editor__Edit"}

\* C25: executing the meta-tool, under either name, with an array of names
\* adds to picked_tools exactly the listed names that are registered; a
\* listed name that is not registered is not added and is named in a
\* warning of the result; nothing picked before is removed, and picked_tools
\* loses a name only through clear_picked.
C25_PickToolsAddsKnown ==
    /\ (Executed /\ reg_last.call[1].name \in MetaNames)
          => LET listed == Range(reg_last.call[1].arguments)
                 result == reg_last.result[1]
                 before == reg_last.before
             IN  /\ tool_registry.picked_tools
                       = before.picked_tools \cup (listed \cap before.tools)
                 /\ tool_registry.tools = before.tools
                 /\ listed \ before.tools # {}
                       => /\ Len(result.content) = 4
                          /\ result.content[3] = "Warning: tools not found"
                          /\ Range(result.content[4]) = listed \ before.tools
                 /\ (listed # {} /\ listed \subseteq before.tools)
                       => Len(result.content) = 2
    /\ reg_last.op # "clear_picked"
          => reg_last.before.picked_tools \subseteq tool_registry.picked_tools
    /\ tool_registry.picked_tools \subseteq tool_registry.tools

\* C25, witness: with one provider picked, pick_tools was called with the
\* name of the other provider and an unknown name: both providers are picked
\* and the result warns of the unknown name.
C25_Witness ==
    /\ Executed
    /\ reg_last.call[1].name = "pick_tools"
    /\ reg_last.call[1].arguments = <<"bash", "grep">>
    /\ reg_last.before.picked_tools = {"editor__Edit"}
    /\ tool_registry.picked_tools = all_tools
    /\ reg_last.result[1].content[4] = <<"grep">>

NoDuplicates(seq) == \A i, j \in 1..Len(seq) : i # j => seq[i] # seq[j]

\* C28: in every ToolCallsRequested event an adapter emits the ids of the
\* tool calls are pairwise distinct, whatever frames the vendor sends.
C28_DistinctCallIds ==
    \A i \in 1..Len(events) :
        events[i].kind = "ToolCallsRequested" => NoDuplicates(events[i].calls)

\* the calls of the round read last
LastRound == requested[Len(requested)]

HasMetaCall(tool_calls) == \E i \in 1..Len(tool_calls) : tool_calls[i].name \in MetaNames

\* the names listed by the meta-tool calls of a round
ListedBy(tool_calls) ==
    UNION { Range(tool_calls[i].arguments) :
              i \in {j \in 1..Len(tool_calls) : tool_calls[j].name \in MetaNames} }

\* C26: after a round within the budget that holds a call of the meta-tool,
\* with a registry configured, no results of the round were submitted: the
\* Assistant message with the calls and one Tool message per result are the
\* end of current_messages, and a new chat_loop was started with them and
\* with registry.get_tools_for_llm(), so that its tools hold the full
\* description of every provider picked in the round.
C26_PickToolHandoff ==
    ( /\ requested # <<>>
      /\ chat_config.registry.some
      /\ rounds <= chat_config.max_rounds
      /\ HasMetaCall(LastRound) )
        => LET n == Len(current_messages)
               k == Len(LastRound)
           IN  /\ \A i \in 1..Len(submitted) : submitted[i].round # rounds
               /\ handle.gen >= 2
               /\ handle.messages = current_messages
               /\ n > k
               /\ current_messages[n - k].role = "Assistant"
               /\ current_messages[n - k].tool_calls = LastRound
               /\ \A i \in 1..k :
                     /\ current_messages[n - k + i].role = "Tool"
                     /\ current_messages[n - k + i].tool_call_id = LastRound[i].id
               /\ handle.tools \in get_tools_for_llm(chat_config.registry)
               /\ \A name \in ListedBy(LastRound) \cap chat_config.registry.tools :
                     \E i \in 1..Len(handle.tools) : handle.tools[i] = FullTool(name)

\* the handle that emitted round i: the first one, or the one started by the
\* last of the earlier rounds that were answered by a restart
HandleOfRound(i) ==
    1 + Cardinality({ j \in 1..(i - 1) :
                        /\ j <= chat_config.max_rounds
                        /\ \A k \in 1..Len(submitted) : submitted[k].round # j })

\* who was given the call to execute
ExecutedBy(call) == { executed[i].by : i \in {j \in 1..Len(executed) : executed[j].call = call} }

\* C27: for every round it answers chat_loop_with_tools produces one
\* ToolResult per requested call, in call order, each with the call's id:
\* the registry's if a registry is configured, else that of the executor
\* registered under the call's name, else an is_error "not registered"
\* result; and it submits them, once, to the handle that emitted the round.
C27_OneResultPerCall ==
    /\ \A k \in 1..Len(submitted) :
          LET calls == requested[submitted[k].round]
              tool_results == submitted[k].results
          IN  /\ Len(tool_results) = Len(calls)
              /\ submitted[k].gen = HandleOfRound(submitted[k].round)
              /\ \A j \in 1..Len(calls) :
                    /\ tool_results[j].tool_call_id = calls[j].id
                    /\ IF chat_config.registry.some
                       THEN ExecutedBy(calls[j]) = {"registry"}
                       ELSE IF calls[j].name \in chat_config.tool_executors
                       THEN /\ ExecutedBy(calls[j]) = {"executor"}
                            /\ tool_results[j].is_error <=> ~tool_execute(calls[j])
                       ELSE /\ ExecutedBy(calls[j]) = {}
                            /\ tool_results[j]
                                  = ToolResult(calls[j].id,
                                               <<"not registered", calls[j].name>>, TRUE)
    /\ \A k, l \in 1..Len(submitted) : k # l => submitted[k].round # submitted[l].round

\* C27, witness: with an executor for bash and no registry a round of two
\* bash calls was answered with an output and an error, in that order, and a
\* round with a grep call with a "not registered" result.
C27_Witness ==
    /\ ~chat_config.registry.some
    /\ chat_config.tool_executors = {"bash"}
    /\ Len(submitted) = 2
    /\ Len(submitted[1].results) = 2
    /\ ~submitted[1].results[1].is_error
    /\ submitted[1].results[2].is_error
    /\ submitted[2].results[1].tool_call_id = 3
    /\ submitted[2].results[1].content = <<"not registered", "grep">>

\* the functionCall part that the request built from the history carries
\* for call j of message i
FunctionCallPart(i, j) ==
    gm_body[i].parts[j + (IF gm_history[i].content # <<>> THEN 1 ELSE 0)]

\* the calls the adapter emitted with this id
EmittedAs(id) == { gm_emitted[k] : k \in { k \in 1..Len(gm_emitted) : gm_emitted[k].id = id } }

\* C29: in every request a Gemini adapter builds, the functionCall part of
\* a call it emitted earlier and that is still in the history carries the
\* thought signature the call was emitted with, the functionResponse part
\* built from the Tool message with that call's id has the function name the
\* call was emitted with, and a functionResponse part is named "tool" only
\* when the id of its Tool message is absent from the side map.
C29_SignatureRoundTrip ==
    gm_pc = "stream" =>
        /\ Len(gm_body) = Len(gm_history)
        /\ \A i \in 1..Len(gm_history) :
              /\ gm_history[i].role = "Assistant" =>
                    \A j \in 1..Len(gm_history[i].tool_calls) :
                        /\ FunctionCallPart(i, j).kind = "functionCall"
                        /\ \A e \in EmittedAs(gm_history[i].tool_calls[j].id) :
                              /\ FunctionCallPart(i, j).thought_signature = e.signature
                              /\ FunctionCallPart(i, j).name = e.name
              /\ gm_history[i].role = "Tool" =>
                    /\ Len(gm_body[i].parts) = 1
                    /\ gm_body[i].parts[1].kind = "functionResponse"
                    /\ \A e \in EmittedAs(gm_history[i].tool_call_id) :
                          gm_body[i].parts[1].name = e.name
                    /\ gm_body[i].parts[1].name = "tool" =>
                          gm_history[i].tool_call_id \notin DOMAIN tool_call_meta

\* a request of a later chat_loop on the adapter that still holds a call
\* emitted with a signature, its result, and the result of a foreign call
C29_Witness ==
    /\ gm_pc = "stream"
    /\ \E i \in 1..Len(gm_history) :
          /\ gm_history[i].role = "Assistant"
          /\ \E j \in 1..Len(gm_history[i].tool_calls) :
                \E e \in EmittedAs(gm_history[i].tool_calls[j].id) :
                    e.signature = "sig" /\ FunctionCallPart(i, j).thought_signature = "sig"
    /\ \E i \in 1..Len(gm_history) :
          /\ gm_history[i].role = "Tool"
          /\ EmittedAs(gm_history[i].tool_call_id) # {}
          /\ gm_body[i].parts[1].name = "g"
    /\ \E i \in 1..Len(gm_history) :
          gm_history[i].role = "Tool" /\ gm_body[i].parts[1].name = "tool"
    /\ \E i \in 1..Len(gm_history) :
          gm_history[i].role = "Assistant" /\ ~gm_history[i].has_calls

\* every chat_loop task has exited
BothExited == \A p \in Producers : task_pc[p] = "exited"

\* the counters one task added
Added(p) == chunk_usage[p]

\* C30: two chat_loops running concurrently on one adapter have independent
\* handles: everything that arrives on a handle was sent by its own task,
\* and every submission a task receives was made on its own handle; and once
\* both tasks have exited, the token and request counters of the adapter are
\* the sums of the usage both tasks read (no update is lost), and the history
\* store holds the history of the task that wrote it last.
C30_ConcurrentLoops ==
    /\ \A p \in Producers :
          /\ \A i \in 1..Len(event_rx[p]) : event_rx[p][i].from = p
          /\ \A i \in 1..Len(consumed[p]) : consumed[p][i].on = p
    /\ BothExited =>
          /\ provider_state.input_tokens = Added(1).input_tokens + Added(2).input_tokens
          /\ provider_state.output_tokens = Added(1).output_tokens + Added(2).output_tokens
          /\ provider_state.request_count = Added(1).request_count + Added(2).request_count
          /\ store_writes # <<>> =>
                provider_history = current_history[store_writes[Len(store_writes)]]

\* both tasks exited after each accounted a usage chunk, each received a
\* submission, and both wrote the store, the second task first
C30_Witness ==
    /\ BothExited
    /\ \A p \in Producers :
          Added(p).request_count >= 1 /\ Len(consumed[p]) = 1 /\ Len(event_rx[p]) >= 2
    /\ store_writes = <<2, 1>>
    /\ provider_history = current_history[1]
    /\ provider_history # current_history[2]

\* the submissions on the handle of task p that returned Ok
Accepted(p) == consumed[p] \o tool_result_rx[p]

\* C31: a submit_tool_results call made while no ToolCallsRequested is
\* outstanding on the handle does not succeed, and its results are never
\* consumed as the answer to a later ToolCallsRequested: every submission
\* that returned Ok, queued or received by the task, was made while a
\* request was outstanding.
C31_EarlySubmissionRejected ==
    \A p \in Producers :
        \A i \in 1..Len(Accepted(p)) : Accepted(p)[i].outstanding

\* a freshly constructed detector after check was called with each of the
\* calls in order: its buffer, its detection count, the last result
\* one check of the call on a detector det = [recent, count, result]
FreshCheck(cfg, det, call) ==
    LET detection == Detect(cfg, det.recent, call)
        count == IF detection.detected THEN det.count + 1 ELSE det.count
    IN  [recent |-> record_call(cfg, det.recent, call),
         count |-> count,
         result |-> IF detection.detected
                    THEN apply_action_policy(cfg, count, detection)
                    ELSE NoDetection]

RECURSIVE FreshFrom(_, _, _, _)
FreshFrom(cfg, det, calls, i) ==
    IF i > Len(calls) THEN det
    ELSE FreshFrom(cfg, FreshCheck(cfg, det, calls[i]), calls, i + 1)

FreshAfter(cfg, calls) ==
    FreshFrom(cfg, [recent |-> <<>>, count |-> 0, result |-> NoDetection], calls, 1)

\* C32: right after clear(), tracked_count and detection_count are 0; and
\* the checks made since the last clear leave the buffer, and (unless
\* reset_detection_count lowered the count in between) the detection count
\* and the result of the last check, exactly as a freshly constructed
\* detector with the same configuration given the same calls.
C32_ClearIsFresh ==
    LET fresh == FreshAfter(det_config, recorded)
    IN  /\ last_check.op = "clear" => tracked_count = 0 /\ detection_count = 0
        /\ recent_calls = fresh.recent
        /\ detection_count >= fresh.count =>
              /\ detection_count = fresh.count
              /\ CheckDone => last_check.result = fresh.result

\* clear() has just been called on a detector that had counted detections
\* and held calls
C32_Witness ==
    /\ last_check.op = "clear"
    /\ last_check.count_before > 0
    /\ tracked_count = 0

\* max(exact_window_size, pattern_window_size)
Capacity == Max(det_config.exact_window_size, det_config.pattern_window_size)

\* C36: every check(C) records C exactly once, whether or not a loop was
\* detected, after the detection consulted the records made before it, and
\* evicts the oldest record when the buffer already holds
\* max(exact_window_size, pattern_window_size) records: the buffer is the
\* last records of the calls checked since the last clear, and tracked_count
\* is the smaller of their number and that capacity.
C36_RecordAfterDetection ==
    /\ recent_calls = LastN(recorded, Capacity)
    /\ tracked_count = Min(Len(recorded), Capacity)
    /\ CheckDone =>
          LET detection == Detect(det_config, BufferBefore, Checked)
          IN  /\ recent_calls[Len(recent_calls)] = Checked
              /\ last_check.result.detected = detection.detected
              /\ detection.detected =>
                    last_check.result =
                        apply_action_policy(det_config, last_check.count_before + 1,
                                            detection)

\* a detected call was recorded into a full buffer of four records, the
\* oldest of which was evicted
C36_Witness ==
    /\ CheckDone
    /\ last_check.result.detected
    /\ Capacity = 4
    /\ Len(recorded) = 6
    /\ tracked_count = 4
    /\ recent_calls = SubSeq(recorded, 3, 6)

\* the position in d of the first delta for the call id
FirstDelta(d, id) == SetMin({i \in 1..Len(d) : d[i].id = id})

\* C34: into_tool_calls returns the calls in insertion order, ordered by the
\* position of the first delta seen for each call id, for every interleaving
\* of deltas.
C34_InsertionOrder ==
    (asm_result.called /\ asm_result.ok) =>
        \A i, j \in 1..Len(asm_result.tool_calls) :
            i < j => FirstDelta(fed, asm_result.tool_calls[i].id)
                        < FirstDelta(fed, asm_result.tool_calls[j].id)

\* the names the deltas of d carry for the call id, in order
RECURSIVE NamesOf(_, _)
NamesOf(d, id) ==
    IF d = <<>> THEN <<>>
    ELSE (IF Head(d).id = id /\ Head(d).name # "" THEN <<Head(d).name>> ELSE <<>>)
         \o NamesOf(Tail(d), id)

\* C35: when several deltas for one call id carry a name, the assembled call
\* keeps the first name seen, and the argument fragment of every delta is
\* appended.
C35_FirstNameWins ==
    \A id \in IdsOf(fed) :
        /\ NamesOf(fed, id) # <<>> => asm_calls[id].name = NamesOf(fed, id)[1]
        /\ asm_calls[id].arguments = FragmentsOf(fed, id)

\* chat_loop_with_tools returned Ok
ReturnedOk == response.kind = "Ok"

\* C33 as stated: on Done the returned content is the event's content
\* whenever it differs from the accumulated text, the accumulated text
\* otherwise, and the returned usage is the sum of the usage of every Done
\* event consumed.
C33_Original ==
    ReturnedOk =>
        /\ done_event.some
        /\ response.content = IF done_event.content # done_event.accumulated
                               THEN done_event.content ELSE done_event.accumulated
        /\ response.usage = done_event.usage

\* C33: on Done the returned content is the event's content whenever that is
\* not empty and differs from the accumulated text, the accumulated text
\* otherwise (an empty Done content never replaces it); the returned usage is
\* the usage of the one Done event consumed.
C33_DoneContent ==
    ReturnedOk =>
        /\ done_event.some
        /\ response.content =
              IF done_event.content # <<>> /\ done_event.content # done_event.accumulated
              THEN done_event.content ELSE done_event.accumulated
        /\ response.usage = done_event.usage

\* a Done event with empty content was read after text and a tool round's
\* content were accumulated: the accumulated text is returned
C33_Witness ==
    /\ ReturnedOk
    /\ done_event.content = <<>>
    /\ Len(done_event.accumulated) >= 2
    /\ response.content = done_event.accumulated
    /\ response.rounds >= 1

\* the producer is blocked in tool_result_rx.recv(): nothing is queued and
\* the handle is alive
AwaitingResults == pc = "await" /\ results = <<>> /\ ~dropped

\* C38: the producer never blocks awaiting tool results in a round in which
\* it has emitted no ToolCallsRequested, so that a consumer waiting in next()
\* is always released by an event, an error or the end of the stream: there
\* is no state in which producer and consumer wait on each other.
C38_NoMutualWait == AwaitingResults => reqRound > 0

\* C39: chat_loop_with_tools always terminates: it returns Ok or Err (or the
\* stream outlasts MaxEvents items) after handling at most max_rounds + 1
\* ToolCallsRequested events in total, pick-tool restarts included; it
\* returns Ok only after receiving a Done event, and a stream that ends
\* without Done yields an error.
C39_Terminates ==
    /\ [](/\ Len(requested) <= chat_config.max_rounds + 1
          /\ ReturnedOk => done_event.some
          /\ ~Running => response.kind \in {"Ok", "Err"})
    /\ <>(~Running \/ nevents >= MaxEvents)

\* C37: the tool-call ids one Gemini adapter synthesizes are pairwise
\* distinct and increase in allocation order, across rounds and across
\* tasks parsing at the same time, so that an entry of the side map is never
\* overwritten by a different call: every registered id holds the signature
\* and the name of the one call that was given it.
C37_DistinctIncreasingIds ==
    /\ \A i, j \in 1..Len(gm_emitted) : i < j => gm_emitted[i].id < gm_emitted[j].id
    /\ \A i \in 1..Len(gm_emitted) :
          gm_emitted[i].id \in DOMAIN tool_call_meta =>
              /\ tool_call_meta[gm_emitted[i].id].signature = gm_emitted[i].signature
              /\ tool_call_meta[gm_emitted[i].id].function_name = gm_emitted[i].name
    /\ \A id \in DOMAIN tool_call_meta : EmittedAs(id) # {}

\* after two calls were registered, both tasks have taken an id and neither
\* has registered it yet, the second task having taken the smaller one
C37_Witness ==
    /\ DOMAIN tool_call_meta = 1..2
    /\ \A p \in Producers : parse_pc[p] = "register"
    /\ parse_id[2] = 3
    /\ parse_id[1] = 4
    /\ Len(gm_emitted) = 4

\* the positions of the provider entries in a list of Tools: every entry
\* but the pick_tools definition
ProviderEntries(tools) == {i \in 1..Len(tools) : tools[i].description # "meta"}

\* C40: after any sequence of register, execute (regular and meta-tool) and
\* clear_picked operations, every name in picked_tools is the name of a
\* registered provider, and the provider entries returned by
\* get_tools_for_llm contain no tool name twice.
C40_PickedAreRegistered ==
    /\ tool_registry.picked_tools \subseteq tool_registry.tools
    /\ \A tools \in get_tools_for_llm(tool_registry)
                     \cup (IF GotTools THEN {reg_last.tools} ELSE {}) :
          \A i, j \in ProviderEntries(tools) : tools[i].name = tools[j].name => i = j

\* C40, witness: every registered provider has been picked, and the tools
\* then asked for hold one entry for each of the two and nothing else.
C40_Witness ==
    /\ GotTools
    /\ tool_registry.tools = all_tools
    /\ tool_registry.picked_tools = all_tools
    /\ ProviderEntries(reg_last.tools) = {1, 2}
    /\ {reg_last.tools[1].name, reg_last.tools[2].name} = all_tools

====
